---------------------------- MODULE Spec2Model ----------------------------
(***************************************************************************)
(* The EVM execution driver of ethers-forked-evm-provider                  *)
(* (src/src/akula/evm.rs): execute, Evm::call, Evm::create and the host    *)
(* interrupt loop Evm::execute, running over the IntraBlockState overlay.  *)
(*                                                                         *)
(* The bytecode interpreter (evmodin) is an external collaborator: it is   *)
(* modelled as a nondeterministic source of interrupts, every frame may    *)
(* issue any request and complete with any result.  The overlay            *)
(* (akula::intra_block_state), the address derivation (akula::address) and *)
(* the fee table (akula::fee_params) are modules of the repository whose   *)
(* files are absent from src/; they are modelled from spec.md.             *)
(***************************************************************************)
EXTENDS Integers, Sequences, FiniteSets, TLC

(***************************************************************************)
(* Bounds of the model.                                                    *)
(***************************************************************************)
\* Interrupts serviced in one transaction (all frames together).
MaxSteps == 2
\* Operations issued concurrently against one provider.
NumOps == 2
MaxFee == 2
MaxDumps == 2
\* The same for the transactions that only write storage.
StoreSteps == 4

(***************************************************************************)
(* evmodin::Revision, in declaration order.                                *)
(***************************************************************************)
Frontier == 0
Homestead == 1
Tangerine == 2
Spurious == 3
Byzantium == 4
Constantinople == 5
Petersburg == 6
Istanbul == 7
Berlin == 8
London == 9
Shanghai == 10

\* The revisions execute is run under in the model.
Revisions == {Frontier, Spurious, London}

(***************************************************************************)
(* precompiled.rs: sizes of the active precompile table.                   *)
(***************************************************************************)
NUM_OF_FRONTIER_CONTRACTS == 4
NUM_OF_BYZANTIUM_CONTRACTS == 8
NUM_OF_ISTANBUL_CONTRACTS == 9

(***************************************************************************)
(* fee_params: fee::* and param::* used by the driver.                     *)
(***************************************************************************)
G_CODE_DEPOSIT == 200
MAX_CODE_SIZE == 24576
R_SCLEAR == 15000
G_SSET == 20000
G_SRESET == 5000
G_SLOAD_TANGERINE_WHISTLE == 200
G_SLOAD_ISTANBUL == 800
WARM_STORAGE_READ_COST == 100
COLD_SLOAD_COST == 2100
ACCESS_LIST_STORAGE_KEY_COST == 1900

(***************************************************************************)
(* Addresses are numbers, compared as the 20-byte big-endian values are.   *)
(* 1..9 is the precompile range; the accounts of the model lie above it.   *)
(***************************************************************************)
ZeroAddr == 0
EcrecoverAddr == 1
IdentityAddr == NUM_OF_FRONTIER_CONTRACTS
ExpmodAddr == NUM_OF_FRONTIER_CONTRACTS + 1
SnarkvAddr == NUM_OF_BYZANTIUM_CONTRACTS
Blake2Addr == NUM_OF_ISTANBUL_CONTRACTS
Alice == NUM_OF_ISTANBUL_CONTRACTS + 1     \* externally owned, funded
Bob == Alice + 1                           \* a contract with code and storage
Tgt1 == Bob + 1                            \* not in the backend
Tgt2 == Tgt1 + 1                           \* not in the backend
Address == {ZeroAddr, EcrecoverAddr, IdentityAddr, ExpmodAddr, SnarkvAddr,
            Blake2Addr, Alice, Bob, Tgt1, Tgt2}

\* Storage keys and values (H256) of the model.
Keys == {1}
Vals == {0, 1}

(***************************************************************************)
(* Byte strings are kept by what the driver reads of them: the length, the *)
(* first byte, and a tag standing for the rest of the content.             *)
(***************************************************************************)
Bytes_new == [len |-> 0, first |-> 0, tag |-> 0]
\* the four bytes 01 00 00 00
Input4 == [len |-> 4, first |-> 1, tag |-> 1]
\* three 32-byte lengths: base_len 0, exp_len 52, mod_len 2^32
ExpWide == [len |-> 96, first |-> 0, tag |-> 9]
Code1 == [len |-> 1, first |-> 96, tag |-> 2]
CodeEF == [len |-> 1, first |-> 239, tag |-> 3]
CodeMax == [len |-> MAX_CODE_SIZE, first |-> 96, tag |-> 4]
CodeBig == [len |-> MAX_CODE_SIZE + 1, first |-> 96, tag |-> 5]
BobCode == [len |-> 2, first |-> 96, tag |-> 6]
CodeBigEF == [len |-> MAX_CODE_SIZE + 1, first |-> 239, tag |-> 8]
One32 == [len |-> 32, first |-> 0, tag |-> 7]

\* Gas handed to execute, and the gas a CALL may pass on instead of all of it.
TxGas == {5000000}
LittleGas == 99 + 1

(***************************************************************************)
(* types.rs: Account.  exists = FALSE is Option::None.                     *)
(***************************************************************************)
NoAccount == [exists |-> FALSE, nonce |-> 0, balance |-> 0, code |-> Bytes_new,
              incarnation |-> 0]

Account(n, b, c) == [exists |-> TRUE, nonce |-> n, balance |-> b, code |-> c,
                     incarnation |-> 0]

(***************************************************************************)
(* The state backend at the pinned block (interface.rs: State).            *)
(***************************************************************************)
BackendAccount(a) ==
    CASE a = Alice -> Account(0, 1, Bytes_new)
      [] a = Bob -> Account(1, 0, BobCode)
      [] OTHER -> NoAccount

BackendStorage(a, k) == IF a = Bob THEN 1 ELSE 0

VARIABLES
    revision,   \* the Revision execute was given
    bad,        \* backend reads that fail: [acct, code], sets of addresses
    ibs,        \* the IntraBlockState overlay
    frames,     \* the call/create frames in progress, outermost first
    steps,      \* interrupts serviced so far
    budget,     \* interrupts the transaction may be serviced
    prov,       \* the operations in flight on a ForkedEvmProvider
    ctx,        \* the transaction's fee fields, the header's base fee and
                \* number, the gas price GetTxContext resumed the
                \* interpreter with, the block GetBlockHash was asked for
                \* and the hash it resumed the interpreter with
    db,         \* the tables of the SQLite file, the dumps made and the
                \* result of the last read
    result      \* what execute returned: [tag, res]

vars == <<revision, bad, ibs, frames, steps, budget, prov, ctx, db, result>>


(***************************************************************************)
(* IntraBlockState (akula::intra_block_state, spec.md 4.3 and 9).          *)
(*                                                                         *)
(* accounts and storage hold the composite view "overlay over backend": a  *)
(* lookup that misses consults the backend and caches what it read, which  *)
(* changes no observation, so the view starts as the backend's content.    *)
(* A backend read that fails does so on every attempt (the backend is      *)
(* idempotent), so nothing is ever cached for an address in bad.acct and   *)
(* every operation that needs its account fails.                           *)
(*                                                                         *)
(* The journal is a flat sequence of tagged entries, each holding what is  *)
(* needed to undo one mutation; a snapshot is the journal's length.        *)
(* err is set when an operation returned Err (the ? operator of the        *)
(* callers): every later operation of the same handler is then skipped.    *)
(***************************************************************************)
ZeroStorage == [k \in Keys |-> 0]

NewIntraBlockState ==
    [accounts |-> [a \in Address |-> BackendAccount(a)],
     storage |-> [a \in Address |-> [k \in Keys |-> BackendStorage(a, k)]],
     logs |-> <<>>,
     self_destructs |-> {},
     touched |-> {},
     accessed_addresses |-> {},
     accessed_storage_keys |-> {},
     refund |-> 0,
     journal |-> <<>>,
     err |-> FALSE]

Entry(tag, a, k, acct, stor, num) ==
    [tag |-> tag, addr |-> a, key |-> k, acct |-> acct, stor |-> stor, num |-> num]

AccountDelta(s, a) == Entry("account", a, 0, s.accounts[a], ZeroStorage, 0)

Push(s, e) == [s EXCEPT !.journal = Append(@, e)]

Fail(s) == [s EXCEPT !.err = TRUE]

\* read_account(a) of the backend returns Err
ReadFails(a) == a \in bad.acct

\* read_code for the code of a returns Err: only code the backend holds is read
CodeReadFails(s, a) ==
    /\ a \in bad.code
    /\ s.accounts[a].exists
    /\ s.accounts[a].code # Bytes_new
    /\ s.accounts[a].incarnation = 0
    /\ s.accounts[a].code = BackendAccount(a).code

exists(s, a) == s.accounts[a].exists

is_dead(s, a) ==
    \/ ~s.accounts[a].exists
    \/ /\ s.accounts[a].nonce = 0
       /\ s.accounts[a].balance = 0
       /\ s.accounts[a].code = Bytes_new

get_balance(s, a) == s.accounts[a].balance

get_nonce(s, a) == s.accounts[a].nonce

get_code(s, a) == s.accounts[a].code

\* code_hash = EMPTY_HASH exactly when the code is the empty string
HasCode(s, a) == s.accounts[a].code # Bytes_new

get_current_storage(s, a, k) == s.storage[a][k]

\* the value at the start of the transaction: the backend's while the account
\* keeps its initial incarnation, zero for an account created since
get_original_storage(s, a, k) ==
    IF s.accounts[a].incarnation = 0 THEN BackendStorage(a, k) ELSE 0

WriteAccount(s, a, acct) ==
    IF s.err THEN s
    ELSE IF ReadFails(a) THEN Fail(s)
    ELSE Push([s EXCEPT !.accounts[a] = acct], AccountDelta(s, a))

set_nonce(s, a, n) ==
    WriteAccount(s, a, [s.accounts[a] EXCEPT !.exists = TRUE, !.nonce = n])

set_balance(s, a, v) ==
    WriteAccount(s, a, [s.accounts[a] EXCEPT !.exists = TRUE, !.balance = v])

add_to_balance(s, a, v) ==
    WriteAccount(s, a, [s.accounts[a] EXCEPT !.exists = TRUE, !.balance = @ + v])

subtract_from_balance(s, a, v) ==
    WriteAccount(s, a, [s.accounts[a] EXCEPT !.exists = TRUE, !.balance = @ - v])

set_code(s, a, c) ==
    WriteAccount(s, a, [s.accounts[a] EXCEPT !.exists = TRUE, !.code = c])

set_storage(s, a, k, v) ==
    IF s.err THEN s
    ELSE IF ReadFails(a) THEN Fail(s)
    ELSE Push([s EXCEPT !.storage[a][k] = v],
              Entry("storage", a, k, NoAccount, ZeroStorage, s.storage[a][k]))

\* bumps the incarnation, clears the code, resets the slot space of a
create_contract(s, a) ==
    IF s.err THEN s
    ELSE IF ReadFails(a) THEN Fail(s)
    ELSE Push([s EXCEPT !.accounts[a] =
                            [exists |-> TRUE, nonce |-> 0,
                             balance |-> s.accounts[a].balance,
                             code |-> Bytes_new,
                             incarnation |-> s.accounts[a].incarnation + 1],
                        !.storage[a] = ZeroStorage],
              Entry("create_contract", a, 0, s.accounts[a], s.storage[a], 0))

touch(s, a) ==
    IF s.err \/ a \in s.touched THEN s
    ELSE Push([s EXCEPT !.touched = @ \cup {a}],
              Entry("touch", a, 0, NoAccount, ZeroStorage, 0))

\* the status access_account returns: the status before the promotion
AccountStatus(s, a) == IF a \in s.accessed_addresses THEN "Warm" ELSE "Cold"

access_account(s, a) ==
    IF s.err \/ a \in s.accessed_addresses THEN s
    ELSE Push([s EXCEPT !.accessed_addresses = @ \cup {a}],
              Entry("access_account", a, 0, NoAccount, ZeroStorage, 0))

StorageStatusOf(s, a, k) ==
    IF <<a, k>> \in s.accessed_storage_keys THEN "Warm" ELSE "Cold"

access_storage(s, a, k) ==
    IF s.err \/ <<a, k>> \in s.accessed_storage_keys THEN s
    ELSE Push([s EXCEPT !.accessed_storage_keys = @ \cup {<<a, k>>}],
              Entry("access_storage", a, k, NoAccount, ZeroStorage, 0))

add_refund(s, n) ==
    IF s.err THEN s
    ELSE Push([s EXCEPT !.refund = @ + n],
              Entry("refund", 0, 0, NoAccount, ZeroStorage, s.refund))

subtract_refund(s, n) ==
    IF s.err THEN s
    ELSE Push([s EXCEPT !.refund = @ - n],
              Entry("refund", 0, 0, NoAccount, ZeroStorage, s.refund))

record_selfdestruct(s, a) ==
    IF s.err \/ a \in s.self_destructs THEN s
    ELSE Push([s EXCEPT !.self_destructs = @ \cup {a}],
              Entry("selfdestruct", a, 0, NoAccount, ZeroStorage, 0))

add_log(s, log) ==
    IF s.err THEN s
    ELSE Push([s EXCEPT !.logs = Append(@, log)],
              Entry("log", 0, 0, NoAccount, ZeroStorage, 0))

take_snapshot(s) == Len(s.journal)

\* Undo with the storage entries left out
Undo_SkipStorage(s, e) ==
    CASE e.tag = "account" -> [s EXCEPT !.accounts[e.addr] = e.acct]
      [] e.tag = "storage" -> s
      [] e.tag = "create_contract" ->
            [s EXCEPT !.accounts[e.addr] = e.acct, !.storage[e.addr] = e.stor]
      [] e.tag = "touch" -> [s EXCEPT !.touched = @ \ {e.addr}]
      [] e.tag = "access_account" ->
            [s EXCEPT !.accessed_addresses = @ \ {e.addr}]
      [] e.tag = "access_storage" ->
            [s EXCEPT !.accessed_storage_keys = @ \ {<<e.addr, e.key>>}]
      [] e.tag = "refund" -> [s EXCEPT !.refund = e.num]
      [] e.tag = "selfdestruct" -> [s EXCEPT !.self_destructs = @ \ {e.addr}]
      [] e.tag = "log" -> [s EXCEPT !.logs = SubSeq(@, 1, Len(@) - 1)]

\* the inverse of one journal entry
Undo(s, e) ==
    CASE e.tag = "account" -> [s EXCEPT !.accounts[e.addr] = e.acct]
      [] e.tag = "storage" -> [s EXCEPT !.storage[e.addr][e.key] = e.num]
      [] e.tag = "create_contract" ->
            [s EXCEPT !.accounts[e.addr] = e.acct, !.storage[e.addr] = e.stor]
      [] e.tag = "touch" -> [s EXCEPT !.touched = @ \ {e.addr}]
      [] e.tag = "access_account" ->
            [s EXCEPT !.accessed_addresses = @ \ {e.addr}]
      [] e.tag = "access_storage" ->
            [s EXCEPT !.accessed_storage_keys = @ \ {<<e.addr, e.key>>}]
      [] e.tag = "refund" -> [s EXCEPT !.refund = e.num]
      [] e.tag = "selfdestruct" -> [s EXCEPT !.self_destructs = @ \ {e.addr}]
      [] e.tag = "log" -> [s EXCEPT !.logs = SubSeq(@, 1, Len(@) - 1)]

RECURSIVE revert_to_snapshot(_, _)
revert_to_snapshot(s, snapshot) ==
    IF Len(s.journal) <= snapshot THEN s
    ELSE revert_to_snapshot(
             Undo([s EXCEPT !.journal = SubSeq(@, 1, Len(@) - 1)],
                  s.journal[Len(s.journal)]),
             snapshot)

\* Everything the capability set lets a caller observe of the overlay.
Obs(s) ==
    [accounts |-> s.accounts,
     storage |-> s.storage,
     logs |-> s.logs,
     self_destructs |-> s.self_destructs,
     accessed_addresses |-> s.accessed_addresses,
     accessed_storage_keys |-> s.accessed_storage_keys,
     refund |-> s.refund]

(***************************************************************************)
(* akula::address (spec.md 4.4, create step 3).  The Keccak-derived        *)
(* address is a deterministic function of its arguments that never is the  *)
(* sender; the model maps it into the two addresses Tgt1 and Tgt2.         *)
(***************************************************************************)
Other(t) == IF t = Tgt1 THEN Tgt2 ELSE Tgt1

create_address(sender, nonce) ==
    LET t == IF nonce % 2 = 0 THEN Tgt1 ELSE Tgt2
    IN IF t = sender THEN Other(t) ELSE t

\* salt is Tgt1 or Tgt2; the init-code hash is fixed in the model
create2_address(sender, salt) ==
    IF salt = sender THEN Other(salt) ELSE salt

(***************************************************************************)
(* evm.rs: the driver.                                                     *)
(***************************************************************************)
Output(status, gas, out, addr) ==
    [status_code |-> status, gas_left |-> gas, output_data |-> out,
     create_address |-> addr]

\* Option<Address>: {} is None, {a} is Some(a)
None == {}
Some(x) == {x}

\* the count that activates the Byzantium contracts one fork early
number_of_precompiles_Early(rev) ==
    IF rev <= Tangerine THEN NUM_OF_FRONTIER_CONTRACTS
    ELSE IF rev <= Petersburg THEN NUM_OF_BYZANTIUM_CONTRACTS
    ELSE NUM_OF_ISTANBUL_CONTRACTS

number_of_precompiles(rev) ==
    IF rev <= Spurious THEN NUM_OF_FRONTIER_CONTRACTS
    ELSE IF rev <= Petersburg THEN NUM_OF_BYZANTIUM_CONTRACTS
    ELSE NUM_OF_ISTANBUL_CONTRACTS

is_precompiled(contract, rev) ==
    IF contract = 0 THEN FALSE ELSE contract <= number_of_precompiles(rev)

(***************************************************************************)
(* precompiled.rs: the entries of CONTRACTS the model calls, identity (4),  *)
(* expmod (5), bn128 pairing (8) and blake2f (9).  A gas function returns  *)
(* a set: {} is None.                                                      *)
(***************************************************************************)
\* A u64 is kept as three limbs of 31 bits, most significant first.
U64(n) == <<0, 0, n>>

id_gas(input) == Some(U64(15 + 3 * ((input.len + 31) \div 32)))

id_run(input) == Some(input)

\* expmod_run, lines 218-247: a modulus of length 0 gives the empty output
expmod_run(input) == IF input.len = 0 THEN Some(Bytes_new) ELSE None

snarkv_gas(input, rev) ==
    LET k == input.len \div 192
    IN Some(U64(IF rev >= Istanbul THEN 34000 * k + 45000
                ELSE 80000 * k + 100000))

\* snarkv_run that looks at whole strides only
snarkv_run_Whole(input) ==
    IF input.len \div 192 = 0 THEN Some(One32)
    ELSE IF input.tag = 0 THEN Some(One32)
    ELSE None

\* snarkv_run, lines 341-380: the empty input gives 1, and so do strides of
\* zero bytes (tag 0), the points at infinity; the other inputs of the model
\* hold no point of the curve
snarkv_run(input) ==
    IF input.len % 192 # 0 THEN None
    ELSE IF input.len = 0 THEN Some(One32)
    ELSE IF input.tag = 0 THEN Some(One32)
    ELSE None

\* blake2_f_gas, lines 387-393: the rounds are the first four bytes, which
\* in the inputs of the model are first, 0, 0, 0
blake2_f_gas(input) ==
    IF input.len < 4 THEN Some(U64(0)) ELSE Some(U64(input.first * 16777216))

\* the 64 bytes of the state blake2::compress leaves
Compressed == [len |-> 64, first |-> 0, tag |-> 12]

\* blake2_f_run, lines 395-455: an input of 213 bytes carries its last byte,
\* the final-block flag, in the field last
blake2_f_run(input) ==
    IF input.len # 213 THEN None
    ELSE IF input.last = 1 \/ input.last = 0 THEN Some(Compressed)
    ELSE None

(***************************************************************************)
(* ecrecover (1).  Its input is kept byte by byte; an H256 is a sequence   *)
(* of 32 bytes, compared as the byte arrays are.                           *)
(***************************************************************************)
H256Bytes == 32

\* mod.rs, lines 21-23: the order n of secp256k1
UPPER ==
    <<255, 255, 255, 255, 255, 255, 255, 255, 255, 255, 255, 255, 255,
    255, 255, 254, 186, 174, 220, 230, 175, 72, 160, 59, 191, 210, 94,
    140, 208, 54, 65, 65>>

\* mod.rs, lines 25-27
HALF_N ==
    <<127, 255, 255, 255, 255, 255, 255, 255, 255, 255, 255, 255, 255,
    255, 255, 255, 93, 87, 110, 115, 87, 164, 80, 29, 223, 233, 47, 70,
    104, 27, 32, 160>>

\* the derived Ord of H256: the first byte that differs decides
h256_gt(a, b) ==
    \E i \in 1..H256Bytes : a[i] > b[i] /\ \A j \in 1..(i - 1) : a[j] = b[j]

h256_ge(a, b) == a = b \/ h256_gt(a, b)

h256_is_zero(h) == \A i \in 1..H256Bytes : h[i] = 0

\* mod.rs, lines 20-42
is_valid_signature(r, s, homestead) ==
    IF h256_is_zero(r) \/ h256_is_zero(s) THEN FALSE
    ELSE IF h256_ge(r, UPPER) /\ h256_ge(s, UPPER) THEN FALSE
    ELSE IF homestead /\ h256_gt(s, HALF_N) THEN FALSE
    ELSE TRUE

\* U256::from(n) as the 32 big-endian bytes from_big_endian reads, n < 256
u256_bytes(n) == [i \in 1..H256Bytes |-> IF i = H256Bytes THEN n ELSE 0]

\* lines 81-85: input.resize(128, 0) for an input shorter than 128 bytes
resize128(input) ==
    IF Len(input) < 128
    THEN [i \in 1..128 |-> IF i <= Len(input) THEN input[i] ELSE 0]
    ELSE input

\* RecoverableSignature::from_compact of the secp256k1 crate refuses an r or
\* an s that is not below the group order
from_compact_ok(r, s) == ~h256_ge(r, UPPER) /\ ~h256_ge(s, UPPER)

\* SECP256K1.recover of the secp256k1 crate finds a public key or not; the
\* inputs of the model whose hash ends in an even byte stand for those it
\* finds one for
recover_ok(hash, r, s, odd) == hash[H256Bytes] % 2 = 0

\* the 32 bytes ecrecover returns: twelve zero bytes and the last twenty of a
\* Keccak-256 digest
Recovered == [len |-> 32, first |-> 0, tag |-> 10]

ecrecover_gas(input, rev) == Some(U64(3000))

\* precompiled.rs, lines 80-118
ecrecover_run_inner(input) ==
    LET padded == resize128(input)
        hash == SubSeq(padded, 1, 32)
        v == SubSeq(padded, 33, 64)
        r == SubSeq(padded, 65, 96)
        s == SubSeq(padded, 97, 128)
    IN IF ~is_valid_signature(r, s, FALSE) THEN None
       ELSE IF v # u256_bytes(28) /\ v # u256_bytes(27) THEN None
       ELSE IF ~from_compact_ok(r, s) THEN None
       ELSE IF ~recover_ok(hash, r, s, v = u256_bytes(28)) THEN None
       ELSE Some(Recovered)

\* ecrecover_run that hands on what the inner function gave
ecrecover_run_Inner(input) == ecrecover_run_inner(input)

\* precompiled.rs, lines 120-122
ecrecover_run(input) ==
    LET out == ecrecover_run_inner(input)
    IN Some(IF out = None THEN Bytes_new ELSE CHOOSE o \in out : TRUE)

(***************************************************************************)
(* expmod (5).  The input is kept byte by byte.  A U256 is kept as its 32  *)
(* bytes, least significant first, and the arithmetic of the U256 type is  *)
(* done on them digit by digit; a usize and a u64 are the U256 whose bytes *)
(* above the eighth are zero.                                              *)
(***************************************************************************)
U256Bytes == 32

G_QUAD_DIVISOR_BYZANTIUM == 20

G_QUAD_DIVISOR_BERLIN == 3

\* U256::from(n) for n below 2^31
u256(n) ==
    [i \in 1..U256Bytes |-> CASE i = 1 -> n % 256
                              [] i = 2 -> (n \div 256) % 256
                              [] i = 3 -> (n \div 65536) % 256
                              [] i = 4 -> n \div 16777216
                              [] OTHER -> 0]

\* U256::from_big_endian of 32 bytes
from_big_endian(slice) == [i \in 1..U256Bytes |-> slice[U256Bytes + 1 - i]]

u256_is_zero(x) == \A i \in 1..U256Bytes : x[i] = 0

\* usize::try_from and u64::try_from succeed
fits_u64(x) == \A i \in 9..U256Bytes : x[i] = 0

\* the number, for one below 2^24
as_usize(x) == x[1] + 256 * x[2] + 65536 * x[3]

small(x) == \A i \in 4..U256Bytes : x[i] = 0

\* the bytes of the number whose i-th byte and all it carries is t and whose
\* bytes above are cols, cut to the width of a U256
RECURSIVE carry_on(_, _, _)
carry_on(cols, i, t) ==
    IF i = U256Bytes THEN <<t % 256>>
    ELSE <<t % 256>> \o carry_on(cols, i + 1, cols[i + 1] + t \div 256)

u256_add(a, b) ==
    carry_on([i \in 1..U256Bytes |-> a[i] + b[i]], 1, a[1] + b[1])

RECURSIVE column_sum(_, _, _, _)
column_sum(a, b, k, i) ==
    IF i > k THEN 0 ELSE a[i] * b[k + 1 - i] + column_sum(a, b, k, i + 1)

u256_mul(a, b) ==
    carry_on([k \in 1..U256Bytes |-> column_sum(a, b, k, 1)], 1, a[1] * b[1])

\* a - b for a >= b
RECURSIVE borrow_on(_, _, _, _)
borrow_on(a, b, i, br) ==
    IF i > U256Bytes THEN <<>>
    ELSE LET t == a[i] - b[i] - br
         IN IF t < 0 THEN <<t + 256>> \o borrow_on(a, b, i + 1, 1)
            ELSE <<t>> \o borrow_on(a, b, i + 1, 0)

u256_sub(a, b) == borrow_on(a, b, 1, 0)

\* a / k for a small k, from the top byte down
RECURSIVE quotient(_, _, _, _)
quotient(a, k, i, rem) ==
    IF i = 0 THEN <<>>
    ELSE LET cur == rem * 256 + a[i]
         IN IF cur < k THEN Append(quotient(a, k, i - 1, cur), 0)
            ELSE Append(quotient(a, k, i - 1, cur % k), cur \div k)

u256_div(a, k) == quotient(a, k, U256Bytes, 0)

u256_le(a, b) ==
    \/ a = b
    \/ \E i \in 1..U256Bytes :
          a[i] < b[i] /\ \A j \in (i + 1)..U256Bytes : a[j] = b[j]

u256_max(a, b) == IF u256_le(a, b) THEN b ELSE a

\* 256 - x.leading_zeros()
bit_len(x) ==
    IF u256_is_zero(x) THEN 0
    ELSE LET top == CHOOSE i \in 1..U256Bytes :
                        x[i] # 0 /\ \A j \in (i + 1)..U256Bytes : x[j] = 0
             bits == CHOOSE n \in 1..8 : 2^(n - 1) <= x[top] /\ x[top] < 2^n
         IN 8 * (top - 1) + bits

\* precompiled.rs, lines 147-156, the square given
eip198_of(x, x_squared) ==
    IF u256_le(x, u256(64)) THEN x_squared
    ELSE IF u256_le(x, u256(1024))
    THEN u256_sub(u256_add(u256_div(x_squared, 4), u256_mul(u256(96), x)),
                  u256(3072))
    ELSE u256_sub(u256_add(u256_div(x_squared, 16), u256_mul(u256(480), x)),
                  u256(199680))

mult_complexity_eip198(x) == eip198_of(x, u256_mul(x, x))

\* precompiled.rs, lines 158-161, the words given
eip2565_of(words) == u256_mul(words, words)

mult_complexity_eip2565(max_length) ==
    eip2565_of(u256_div(u256_add(max_length, u256(7)), 8))

\* utils.rs, lines 10-29
pad(left, buffer, min_size) ==
    IF Len(buffer) >= min_size THEN buffer
    ELSE LET point == IF left THEN min_size - Len(buffer) ELSE 0
         IN [i \in 1..min_size |->
                IF i > point /\ i <= point + Len(buffer) THEN buffer[i - point]
                ELSE 0]

left_pad(buffer, min_size) == pad(TRUE, buffer, min_size)

right_pad(buffer, min_size) == pad(FALSE, buffer, min_size)

\* lines 179-188: the first 32 bytes of the exponent
exp_head(rest, base_len, exp_len) ==
    IF small(base_len) /\ Len(rest) > as_usize(base_len)
    THEN LET from == as_usize(base_len)
             to == IF from + 32 <= Len(rest) THEN from + 32 ELSE Len(rest)
             exp_input == right_pad(SubSeq(rest, from + 1, to), 32)
         IN from_big_endian(
                IF small(exp_len) /\ as_usize(exp_len) < 32
                THEN left_pad(SubSeq(exp_input, 1, as_usize(exp_len)), 32)
                ELSE exp_input)
    ELSE u256(0)

\* a product as a usize holds it: whether it went beyond 64 bits, and its low
\* 64 bits
as_usize_product(wide) ==
    [overflow |-> ~fits_u64(wide),
     val |-> [i \in 1..U256Bytes |-> IF i <= 8 THEN wide[i] ELSE 0]]

\* line 194: 8 * (exp_len - 32) in usize
times_eight(exp_len) ==
    as_usize_product(u256_mul(u256(8), u256_sub(exp_len, u256(32))))

\* lines 190-201, the product of line 194 and the bit length given
adjusted_of(eight, bits) ==
    LET added == IF bits > 1 THEN u256_add(eight, u256(bits - 1)) ELSE eight
    IN IF u256_is_zero(added) THEN u256(1) ELSE added

\* lines 207-218, max_length and adjusted_exponent_len given
gas_of(max_length, adjusted_exponent_len, rev) ==
    IF rev < Berlin
    THEN u256_div(u256_mul(mult_complexity_eip198(max_length),
                           adjusted_exponent_len),
                  G_QUAD_DIVISOR_BYZANTIUM)
    ELSE u256_div(u256_mul(mult_complexity_eip2565(max_length),
                           adjusted_exponent_len),
                  G_QUAD_DIVISOR_BERLIN)

\* line 218: Some(max(min_gas, u64::try_from(gas).ok()?))
priced_of(min_gas, gas) ==
    IF ~fits_u64(gas) THEN None ELSE Some(u256_max(u256(min_gas), gas))

\* lines 190-218, the product of line 194 given
expmod_gas_of(eight, bits, max_length, rev) ==
    [overflow |-> eight.overflow,
     gas |-> priced_of(IF rev < Berlin THEN 0 ELSE 200,
                       gas_of(max_length, adjusted_of(eight.val, bits), rev))]

\* lines 171-188, the three lengths and the bytes after them given
expmod_gas_lens(base_len256, exp_len256, mod_len256, rest, rev) ==
    IF u256_is_zero(base_len256) /\ u256_is_zero(mod_len256)
    THEN [overflow |-> FALSE,
          gas |-> Some(u256(IF rev < Berlin THEN 0 ELSE 200))]
    ELSE IF ~fits_u64(base_len256) \/ ~fits_u64(exp_len256)
            \/ ~fits_u64(mod_len256)
    THEN [overflow |-> FALSE, gas |-> None]
    ELSE expmod_gas_of(IF u256_le(exp_len256, u256(32))
                       THEN [overflow |-> FALSE, val |-> u256(0)]
                       ELSE times_eight(exp_len256),
                       bit_len(exp_head(rest, base_len256, exp_len256)),
                       u256_max(mod_len256, base_len256), rev)

\* lines 165-169, the padded input given
expmod_gas_padded(input, rev) ==
    expmod_gas_lens(from_big_endian(SubSeq(input, 1, 32)),
                    from_big_endian(SubSeq(input, 33, 64)),
                    from_big_endian(SubSeq(input, 65, 96)),
                    SubSeq(input, 97, Len(input)), rev)

\* expmod_gas, lines 163-219.  gas is the Option the function returns when
\* the multiplication of line 194 wraps; overflow tells that it did, which
\* is a panic in a build with overflow checks.
expmod_gas(input, rev) == expmod_gas_padded(right_pad(input, 3 * 32), rev)

\* the bytes the byte strings of the calls of the model stand for: nothing,
\* 01 00 00 00, and the lengths 0, 52 and 2^32
Contents(bytes) ==
    CASE bytes = Bytes_new -> <<>>
      [] bytes = Input4 -> <<1, 0, 0, 0>>
      [] bytes = ExpWide ->
            [i \in 1..96 |-> IF i = 64 THEN 52 ELSE IF i = 92 THEN 1 ELSE 0]

\* a u64 as the three limbs of 31 bits the cost of a call is compared in
U64Limbs31(x) ==
    <<x[8] \div 64,
      (x[4] \div 128) + 2 * x[5] + 512 * x[6] + 131072 * x[7]
          + 33554432 * (x[8] % 64),
      x[1] + 256 * x[2] + 65536 * x[3] + 16777216 * (x[4] % 128)>>

\* the cost of a call to expmod, as ContractGas hands it on
expmod_cost(input, rev) ==
    LET priced == expmod_gas(Contents(input), rev).gas
    IN IF priced = None THEN None
       ELSE Some(U64Limbs31(CHOOSE g \in priced : TRUE))

ContractGas(num, input, rev) ==
    CASE num = EcrecoverAddr -> ecrecover_gas(input, rev)
      [] num = IdentityAddr -> id_gas(input)
      [] num = ExpmodAddr -> expmod_cost(input, rev)
      [] num = SnarkvAddr -> snarkv_gas(input, rev)
      [] num = Blake2Addr -> blake2_f_gas(input)

ContractRun(num, input) ==
    CASE num = EcrecoverAddr -> ecrecover_run(input)
      [] num = IdentityAddr -> id_run(input)
      [] num = ExpmodAddr -> expmod_run(input)
      [] num = SnarkvAddr -> snarkv_run(input)
      [] num = Blake2Addr -> blake2_f_run(input)

\* call, lines 258-259: the cost, None when the gas function gives None or
\* i64::try_from refuses the cost (2^63 is limb 2 in the first place)
PrecompileCost(message, rev) ==
    LET cost == ContractGas(message.code_address, message.input_data, rev)
    IN IF cost = None THEN None
       ELSE IF (CHOOSE g \in cost : TRUE)[1] >= 2 THEN None
       ELSE cost

\* gas > message.gas of line 261, message.gas being below 2^31
Exceeds(gas, limit) == gas[1] > 0 \/ gas[2] > 0 \/ gas[3] > limit

\* the check that refuses a call whose gas is exactly the cost
PrecompileRuns_Strict(message, rev) ==
    LET cost == PrecompileCost(message, rev)
    IN cost # None /\ ~Exceeds(CHOOSE g \in cost : TRUE, message.gas - 1)

\* call, lines 258-262: contract.run is invoked
PrecompileRuns(message, rev) ==
    LET cost == PrecompileCost(message, rev)
    IN cost # None /\ ~Exceeds(CHOOSE g \in cost : TRUE, message.gas)

\* call, lines 254-272: the precompile branch
PrecompileCall(message, rev) ==
    IF ~PrecompileRuns(message, rev)
    THEN Output("OutOfGas", message.gas, Bytes_new, None)
    ELSE LET gas == (CHOOSE g \in PrecompileCost(message, rev) : TRUE)[3]
             out == ContractRun(message.code_address, message.input_data)
         IN IF out # None
            THEN Output("Success", message.gas - gas, CHOOSE o \in out : TRUE,
                        None)
            ELSE Output("PrecompileFailure", message.gas, Bytes_new, None)

(***************************************************************************)
(* A frame is one activation of call or create.  msg is the Message the    *)
(* interpreter runs (for create, the deploy message).  entry, snap and     *)
(* iret record the overlay at entry, the overlay when the snapshot was     *)
(* taken and what the interpreter completed with; nested records that the  *)
(* frame's code issued a Call, a Create or a Selfdestruct, ret the output  *)
(* of the nested frame its interpreter was resumed with and has not yet    *)
(* left behind by a further Call or Create or by completing.               *)
(***************************************************************************)
NoIret == Output("None", 0, Bytes_new, None)

Frame(fn, m, pc, snapshot, target, res, entry, snap) ==
    [fn |-> fn, msg |-> m, pc |-> pc, snapshot |-> snapshot, target |-> target,
     res |-> res, entry |-> entry, snap |-> snap, iret |-> NoIret,
     nested |-> FALSE, ret |-> NoIret]

\* the balance check made for kind Call only
BalanceCheckFails_CallOnly(s, message) ==
    message.kind = "Call" /\ get_balance(s, message.sender) < message.value

\* call, lines 221-223
BalanceCheckFails(s, message) ==
    message.kind # "DelegateCall" /\ get_balance(s, message.sender) < message.value

\* the EIP-161 rule gated one fork late
Eip161Applies_Byzantium(message, precompiled, rev) ==
    message.value = 0 /\ rev >= Byzantium /\ ~precompiled

\* call, lines 231-234, without the exists() read
Eip161Applies(message, precompiled, rev) ==
    message.value = 0 /\ rev >= Spurious /\ ~precompiled

\* the transfer that debits the sender and credits nobody
CallTransfer_NoCredit(s, message) ==
    IF message.kind = "Call"
    THEN IF message.is_static
         THEN touch(s, message.recipient)
         ELSE subtract_from_balance(s, message.sender, message.value)
    ELSE s

\* the transfer made for every kind of message
CallTransfer_AnyKind(s, message) ==
    IF message.is_static
    THEN touch(s, message.recipient)
    ELSE add_to_balance(
             subtract_from_balance(s, message.sender, message.value),
             message.recipient, message.value)

\* call, lines 241-252
CallTransfer(s, message) ==
    IF message.kind = "Call"
    THEN IF message.is_static
         THEN touch(s, message.recipient)
         ELSE add_to_balance(
                  subtract_from_balance(s, message.sender, message.value),
                  message.recipient, message.value)
    ELSE s

\* the end of call without the revert
CallFinish_NoRevert(s, snapshot, res) ==
    IF res.status_code # "Success"
    THEN [ibs |-> s,
          res |-> IF res.status_code # "Revert"
                  THEN [res EXCEPT !.gas_left = 0] ELSE res]
    ELSE [ibs |-> s, res |-> res]

\* the end of call that leaves gas_left as it is
CallFinish_KeepGas(s, snapshot, res) ==
    IF res.status_code # "Success"
    THEN [ibs |-> revert_to_snapshot(s, snapshot), res |-> res]
    ELSE [ibs |-> s, res |-> res]

\* the end of call that takes the gas of a Revert too
CallFinish_ZeroOnRevert(s, snapshot, res) ==
    IF res.status_code # "Success"
    THEN [ibs |-> revert_to_snapshot(s, snapshot),
          res |-> [res EXCEPT !.gas_left = 0]]
    ELSE [ibs |-> s, res |-> res]

\* call, lines 286-293
\* CallFinish whose revert leaves the logs and the self-destruct marks
CallFinish_KeepLogs(s, snapshot, res) ==
    IF res.status_code # "Success"
    THEN [ibs |-> [revert_to_snapshot(s, snapshot)
                      EXCEPT !.logs = s.logs,
                             !.self_destructs = s.self_destructs],
          res |-> IF res.status_code # "Revert"
                  THEN [res EXCEPT !.gas_left = 0] ELSE res]
    ELSE [ibs |-> s, res |-> res]

CallFinish(s, snapshot, res) ==
    IF res.status_code # "Success"
    THEN [ibs |-> revert_to_snapshot(s, snapshot),
          res |-> IF res.status_code # "Revert"
                  THEN [res EXCEPT !.gas_left = 0] ELSE res]
    ELSE [ibs |-> s, res |-> res]

\* call, lines 212-284: up to the start of the interpreter, or to the return
CallBegin(s, message) ==
    LET res == Output("Success", message.gas, Bytes_new, None)
        early == Frame("call", message, "done", None, None, res, s, s)
        precompiled == is_precompiled(message.code_address, revision)
    IN IF message.kind # "DelegateCall" /\ ReadFails(message.sender)
       THEN [ibs |-> Fail(s), frame |-> early]
       ELSE IF BalanceCheckFails(s, message)
       THEN [ibs |-> s,
             frame |-> [early EXCEPT !.res.status_code = "InsufficientBalance"]]
       ELSE IF Eip161Applies(message, precompiled, revision)
               /\ ReadFails(message.code_address)
       THEN [ibs |-> Fail(s), frame |-> early]
       ELSE IF Eip161Applies(message, precompiled, revision)
               /\ ~exists(s, message.code_address)
       THEN [ibs |-> s, frame |-> early]
       ELSE
         LET snapshot == take_snapshot(s)
             s1 == CallTransfer(s, message)
             taken == [early EXCEPT !.snapshot = Some(snapshot)]
         IN IF s1.err THEN [ibs |-> s1, frame |-> taken]
            ELSE IF precompiled
            THEN LET fin == CallFinish(s1, snapshot,
                                       PrecompileCall(message, revision))
                 IN [ibs |-> fin.ibs, frame |-> [taken EXCEPT !.res = fin.res]]
            ELSE IF ReadFails(message.code_address)
                    \/ CodeReadFails(s1, message.code_address)
            THEN [ibs |-> Fail(s1), frame |-> taken]
            ELSE IF get_code(s1, message.code_address) = Bytes_new
            THEN [ibs |-> s1, frame |-> taken]
            ELSE [ibs |-> s1, frame |-> [taken EXCEPT !.pc = "run"]]

\* create, lines 127-137
ContractAddr(message, nonce) ==
    IF message.salt # None
    THEN create2_address(message.sender, CHOOSE x \in message.salt : TRUE)
    ELSE create_address(message.sender, nonce)

\* the collision check that looks at the code hash only
Collision_CodeOnly(s, contract_addr) == HasCode(s, contract_addr)

\* create, lines 141-142
Collision(s, contract_addr) ==
    get_nonce(s, contract_addr) # 0 \/ HasCode(s, contract_addr)

\* CreateSetup without create_contract
CreateSetup_SameIncarnation(s, message, contract_addr, rev) ==
    LET s2 == IF rev >= Spurious THEN set_nonce(s, contract_addr, 1) ELSE s
        s3 == subtract_from_balance(s2, message.sender, message.endowment)
    IN add_to_balance(s3, contract_addr, message.endowment)

\* create, lines 150-161
CreateSetup(s, message, contract_addr, rev) ==
    LET s1 == create_contract(s, contract_addr)
        s2 == IF rev >= Spurious THEN set_nonce(s1, contract_addr, 1) ELSE s1
        s3 == subtract_from_balance(s2, message.sender, message.endowment)
    IN add_to_balance(s3, contract_addr, message.endowment)

\* create, lines 163-173
DeployMessage(message, contract_addr) ==
    [kind |-> "Call", is_static |-> FALSE, depth |-> message.depth,
     gas |-> message.gas, recipient |-> contract_addr, code_address |-> 0,
     sender |-> message.sender, input_data |-> Bytes_new,
     value |-> message.endowment]

\* the validation that stores the code without charging the deposit
CreateValidate_NoCharge(s, res, contract_addr, rev) ==
    IF res.status_code = "Success"
    THEN LET code_len == res.output_data.len
             code_deploy_gas == code_len * G_CODE_DEPOSIT
         IN IF rev >= London /\ code_len > 0 /\ res.output_data.first = 239
            THEN [ibs |-> s,
                  res |-> [res EXCEPT !.status_code = "ContractValidationFailure"]]
            ELSE IF rev >= Spurious /\ code_len > MAX_CODE_SIZE
            THEN [ibs |-> s, res |-> [res EXCEPT !.status_code = "OutOfGas"]]
            ELSE IF res.gas_left >= 0 /\ res.gas_left >= code_deploy_gas
            THEN [ibs |-> set_code(s, contract_addr, res.output_data), res |-> res]
            ELSE IF rev >= Homestead
            THEN [ibs |-> s, res |-> [res EXCEPT !.status_code = "OutOfGas"]]
            ELSE [ibs |-> s, res |-> res]
    ELSE [ibs |-> s, res |-> res]

\* the validation that applies the size limit before the 0xEF rule
CreateValidate_SizeFirst(s, res, contract_addr, rev) ==
    IF res.status_code = "Success"
    THEN LET code_len == res.output_data.len
             code_deploy_gas == code_len * G_CODE_DEPOSIT
         IN IF rev >= Spurious /\ code_len > MAX_CODE_SIZE
            THEN [ibs |-> s, res |-> [res EXCEPT !.status_code = "OutOfGas"]]
            ELSE IF rev >= London /\ code_len > 0 /\ res.output_data.first = 239
            THEN [ibs |-> s,
                  res |-> [res EXCEPT !.status_code = "ContractValidationFailure"]]
            ELSE IF res.gas_left >= 0 /\ res.gas_left >= code_deploy_gas
            THEN [ibs |-> set_code(s, contract_addr, res.output_data),
                  res |-> [res EXCEPT !.gas_left = @ - code_deploy_gas]]
            ELSE IF rev >= Homestead
            THEN [ibs |-> s, res |-> [res EXCEPT !.status_code = "OutOfGas"]]
            ELSE [ibs |-> s, res |-> res]
    ELSE [ibs |-> s, res |-> res]

\* the validation that rejects code of exactly MAX_CODE_SIZE bytes too
CreateValidate_SizeInclusive(s, res, contract_addr, rev) ==
    IF res.status_code = "Success"
    THEN LET code_len == res.output_data.len
             code_deploy_gas == code_len * G_CODE_DEPOSIT
         IN IF rev >= London /\ code_len > 0 /\ res.output_data.first = 239
            THEN [ibs |-> s,
                  res |-> [res EXCEPT !.status_code = "ContractValidationFailure"]]
            ELSE IF rev >= Spurious /\ code_len >= MAX_CODE_SIZE
            THEN [ibs |-> s, res |-> [res EXCEPT !.status_code = "OutOfGas"]]
            ELSE IF res.gas_left >= 0 /\ res.gas_left >= code_deploy_gas
            THEN [ibs |-> set_code(s, contract_addr, res.output_data),
                  res |-> [res EXCEPT !.gas_left = @ - code_deploy_gas]]
            ELSE IF rev >= Homestead
            THEN [ibs |-> s, res |-> [res EXCEPT !.status_code = "OutOfGas"]]
            ELSE [ibs |-> s, res |-> res]
    ELSE [ibs |-> s, res |-> res]

\* the validation that waives the unpaid deposit from Tangerine on only
CreateValidate_LateHomestead(s, res, contract_addr, rev) ==
    IF res.status_code = "Success"
    THEN LET code_len == res.output_data.len
             code_deploy_gas == code_len * G_CODE_DEPOSIT
         IN IF rev >= London /\ code_len > 0 /\ res.output_data.first = 239
            THEN [ibs |-> s,
                  res |-> [res EXCEPT !.status_code = "ContractValidationFailure"]]
            ELSE IF rev >= Spurious /\ code_len > MAX_CODE_SIZE
            THEN [ibs |-> s, res |-> [res EXCEPT !.status_code = "OutOfGas"]]
            ELSE IF res.gas_left >= 0 /\ res.gas_left >= code_deploy_gas
            THEN [ibs |-> set_code(s, contract_addr, res.output_data),
                  res |-> [res EXCEPT !.gas_left = @ - code_deploy_gas]]
            ELSE IF rev >= Tangerine
            THEN [ibs |-> s, res |-> [res EXCEPT !.status_code = "OutOfGas"]]
            ELSE [ibs |-> s, res |-> res]
    ELSE [ibs |-> s, res |-> res]

\* create, lines 179-197
CreateValidate(s, res, contract_addr, rev) ==
    IF res.status_code = "Success"
    THEN LET code_len == res.output_data.len
             code_deploy_gas == code_len * G_CODE_DEPOSIT
         IN IF rev >= London /\ code_len > 0 /\ res.output_data.first = 239
            THEN [ibs |-> s,
                  res |-> [res EXCEPT !.status_code = "ContractValidationFailure"]]
            ELSE IF rev >= Spurious /\ code_len > MAX_CODE_SIZE
            THEN [ibs |-> s, res |-> [res EXCEPT !.status_code = "OutOfGas"]]
            ELSE IF res.gas_left >= 0 /\ res.gas_left >= code_deploy_gas
            THEN [ibs |-> set_code(s, contract_addr, res.output_data),
                  res |-> [res EXCEPT !.gas_left = @ - code_deploy_gas]]
            ELSE IF rev >= Homestead
            THEN [ibs |-> s, res |-> [res EXCEPT !.status_code = "OutOfGas"]]
            ELSE [ibs |-> s, res |-> res]
    ELSE [ibs |-> s, res |-> res]

\* the end of create without the revert
CreateFinish_NoRevert(s, snapshot, res, contract_addr) ==
    IF res.status_code = "Success"
    THEN [ibs |-> s, res |-> [res EXCEPT !.create_address = Some(contract_addr)]]
    ELSE [ibs |-> s,
          res |-> IF res.status_code # "Revert"
                  THEN [res EXCEPT !.gas_left = 0] ELSE res]

\* create, lines 199-208
CreateFinish(s, snapshot, res, contract_addr) ==
    IF res.status_code = "Success"
    THEN [ibs |-> s, res |-> [res EXCEPT !.create_address = Some(contract_addr)]]
    ELSE [ibs |-> revert_to_snapshot(s, snapshot),
          res |-> IF res.status_code # "Revert"
                  THEN [res EXCEPT !.gas_left = 0] ELSE res]

\* create, lines 110-177: up to the start of the init-code, or to the return
CreateBegin(s, message) ==
    LET res == Output("Success", message.gas, Bytes_new, None)
        nonce == get_nonce(s, message.sender)
        contract_addr == ContractAddr(message, nonce)
        deploy == DeployMessage(message, contract_addr)
        early == Frame("create", deploy, "done", None, Some(contract_addr),
                       res, s, s)
    IN IF ReadFails(message.sender) THEN [ibs |-> Fail(s), frame |-> early]
       ELSE IF get_balance(s, message.sender) < message.endowment
       THEN [ibs |-> s,
             frame |-> [early EXCEPT !.res.status_code = "InsufficientBalance"]]
       ELSE
         LET s1 == access_account(set_nonce(s, message.sender, nonce + 1),
                                  contract_addr)
         IN IF ReadFails(contract_addr) THEN [ibs |-> Fail(s1), frame |-> early]
            ELSE IF Collision(s1, contract_addr)
            THEN [ibs |-> s1,
                  frame |-> [early EXCEPT !.res.status_code = "InvalidInstruction",
                                          !.res.gas_left = 0,
                                          !.snap = s1]]
            ELSE
              LET snapshot == take_snapshot(s1)
                  s2 == CreateSetup(s1, message, contract_addr, revision)
              IN [ibs |-> s2,
                  frame |-> [early EXCEPT !.snapshot = Some(snapshot),
                                          !.snap = s1,
                                          !.pc = "run"]]

\* FrameFinish that reverts to the snapshot of the outermost frame
FrameFinish_Outer(s, f, out) ==
    LET snapshot == 0
    IN IF f.fn = "call"
       THEN CallFinish(s, snapshot, out)
       ELSE LET contract_addr == CHOOSE x \in f.target : TRUE
                v == CreateValidate(s, out, contract_addr, revision)
            IN CreateFinish(v.ibs, snapshot, v.res, contract_addr)

\* the end of call or create once the interpreter has completed with out
FrameFinish(s, f, out) ==
    LET snapshot == CHOOSE x \in f.snapshot : TRUE
    IN IF f.fn = "call"
       THEN CallFinish(s, snapshot, out)
       ELSE LET contract_addr == CHOOSE x \in f.target : TRUE
                v == CreateValidate(s, out, contract_addr, revision)
            IN CreateFinish(v.ibs, snapshot, v.res, contract_addr)

(***************************************************************************)
(* The interpreter's side of the interrupt protocol (evmodin): the         *)
(* messages its CALL-family and CREATE instructions build, and what it     *)
(* may complete with.                                                      *)
(***************************************************************************)
\* the Message of a CALL, STATICCALL, DELEGATECALL or CALLCODE issued by the
\* code of frame f
NestedMessage(f, mode, target, value, gas) ==
    [kind |-> IF mode = "StaticCall" THEN "Call" ELSE mode,
     is_static |-> f.msg.is_static \/ mode = "StaticCall",
     depth |-> f.msg.depth + 1,
     gas |-> IF gas <= f.msg.gas THEN gas ELSE f.msg.gas,
     recipient |-> IF mode \in {"Call", "StaticCall"} THEN target
                   ELSE f.msg.recipient,
     code_address |-> target,
     sender |-> IF mode = "DelegateCall" THEN f.msg.sender ELSE f.msg.recipient,
     input_data |-> Input4,
     value |-> CASE mode = "StaticCall" -> 0
                 [] mode = "DelegateCall" -> f.msg.value
                 [] OTHER -> value]

\* the CreateMessage of a CREATE (salt None) or CREATE2 issued by frame f
NestedCreate(f, endowment, salt) ==
    [depth |-> f.msg.depth + 1, gas |-> f.msg.gas, sender |-> f.msg.recipient,
     initcode |-> Code1, endowment |-> endowment, salt |-> salt]

\* Complete(Ok(output)) is Success or Revert with at most the gas the frame
\* was given; Complete(Err(status)) is mapped by execute, lines 547-559.
\* 199 is less than the deposit of one byte of code.
Least(a, b) == IF a <= b THEN a ELSE b

ErrStatuses == {"OutOfGas"}

\* what init-code returns is validated as code; what called code returns is
\* only handed on
Returned(fn) ==
    IF fn = "create" THEN {Bytes_new, Code1, CodeEF, CodeMax, CodeBig}
    ELSE {Code1}

Completions(fn, gas) ==
    {Output("Success", gas, o, None) : o \in Returned(fn)}
    \cup {Output("Success", Least(gas, 199), Code1, None)}
    \cup (IF fn = "create"
          THEN {Output("Success", Least(gas, 199), CodeBigEF, None)}
          ELSE {})
    \cup {Output("Revert", Least(gas, 199), Code1, None)}
    \cup {Output(st, 0, Bytes_new, None) : st \in ErrStatuses}

(***************************************************************************)
(* The state machine.                                                      *)
(***************************************************************************)
NoResult == Output("None", 0, Bytes_new, None)

\* a legacy transaction without gas price under a header without base fee
\* and of number 0; neither GetTxContext nor GetBlockHash was requested
NoContext ==
    [type |-> "Legacy", gas_price |-> None, max_fee_per_gas |-> None,
     max_priority_fee_per_gas |-> None, base_fee_per_gas |-> None,
     tx_gas_price |-> None, number |-> 0, block_number |-> None,
     hash |-> None]

\* no file is open
NoDatabase ==
    [balance |-> <<>>, nonce |-> <<>>, code |-> <<>>, storage |-> <<>>,
     block |-> <<>>, dumped |-> <<>>, got |-> None]

\* no operation is in flight: execute is called directly
NoProvider == [lock |-> 0, kind |-> <<>>, pc |-> <<>>, seen |-> <<>>]

Init ==
    /\ revision \in Revisions
    /\ bad = [acct |-> {}, code |-> {}]
    /\ ibs = NewIntraBlockState
    /\ frames = <<>>
    /\ steps = 0
    /\ budget = MaxSteps
    /\ result = [tag |-> "idle", res |-> NoResult]
    /\ prov = NoProvider
    /\ ctx = NoContext
    /\ db = NoDatabase

Top == frames[Len(frames)]

Running == result.tag = "running" /\ frames # <<>> /\ Top.pc = "run"

CanStep == Running /\ steps < budget

\* the caller waits while the frame r.frame runs; a backend error abandons
\* every frame and is what execute returns (the ? operator)
Enter(r, below) ==
    IF r.ibs.err
    THEN /\ ibs' = [r.ibs EXCEPT !.err = FALSE]
         /\ frames' = <<>>
         /\ result' = [tag |-> "err", res |-> NoResult]
    ELSE /\ ibs' = r.ibs
         /\ frames' = Append(below, r.frame)
         /\ result' = [tag |-> "running", res |-> NoResult]

Waiting == [frames EXCEPT ![Len(frames)].pc = "wait",
                          ![Len(frames)].nested = TRUE,
                          ![Len(frames)].ret = NoIret]

\* the top frame's handler ran on the overlay and resumed the interpreter
Resume(s) ==
    IF s.err
    THEN /\ ibs' = [s EXCEPT !.err = FALSE]
         /\ frames' = <<>>
         /\ result' = [tag |-> "err", res |-> NoResult]
    ELSE /\ ibs' = s
         /\ UNCHANGED <<frames, result>>

\* ExecuteCall whose root message is never static
ExecuteCall_NonStatic(from, to, value, gas, input_data) ==
    /\ result.tag = "idle"
    /\ Enter(CallBegin(ibs, [kind |-> "Call", is_static |-> FALSE,
                             depth |-> 0, sender |-> from,
                             input_data |-> input_data, value |-> value,
                             gas |-> gas, recipient |-> to,
                             code_address |-> to]),
             <<>>)
    /\ UNCHANGED <<revision, budget, prov, ctx, db, bad, steps>>

\* execute, lines 45-84: a transaction with a recipient
ExecuteCall(from, to, value, gas, input_data) ==
    /\ result.tag = "idle"
    /\ Enter(CallBegin(ibs, [kind |-> "Call", is_static |-> from = ZeroAddr,
                             depth |-> 0, sender |-> from,
                             input_data |-> input_data, value |-> value,
                             gas |-> gas, recipient |-> to,
                             code_address |-> to]),
             <<>>)
    /\ UNCHANGED <<revision, budget, prov, ctx, db, bad, steps>>

\* execute, lines 85-95: a transaction without recipient
ExecuteCreate(from, value, gas) ==
    /\ result.tag = "idle"
    /\ Enter(CreateBegin(ibs, [depth |-> 0, gas |-> gas, sender |-> from,
                               initcode |-> Code1, endowment |-> value,
                               salt |-> None]),
             <<>>)
    /\ UNCHANGED <<revision, budget, prov, ctx, db, bad, steps>>

\* Option::unwrap_or_default, lines 60, 69, 70
or_default(x, default) ==
    IF x = None THEN default ELSE CHOOSE v \in x : TRUE

\* execute, lines 45-103: the root message of the transaction txn, whose
\* from, to, value and data are options
Execute(txn, gas) ==
    LET from == or_default(txn.from, ZeroAddr)
        to == txn.to
        input_data == or_default(txn.data, Bytes_new)
        value == or_default(txn.value, 0)
    IN IF to # None
       THEN ExecuteCall(from, CHOOSE address \in to : TRUE, value, gas,
                        input_data)
       ELSE ExecuteCreate(from, value, gas)

\* ExecuteReturn granting the refund counter, capped, as gas left
ExecuteReturn_Capped ==
    /\ result.tag = "running"
    /\ Len(frames) = 1
    /\ Top.pc = "done"
    /\ result' = [tag |-> "ok",
                  res |-> [Top.res EXCEPT !.gas_left =
                              @ + Least(ibs.refund,
                                        (Top.msg.gas - @)
                                          \div (IF revision >= London
                                                THEN 5 ELSE 2))]]
    /\ frames' = <<>>
    /\ UNCHANGED <<revision, budget, prov, ctx, db, bad, ibs, steps>>

\* execute, lines 97-102
ExecuteReturn ==
    /\ result.tag = "running"
    /\ Len(frames) = 1
    /\ Top.pc = "done"
    /\ result' = [tag |-> "ok", res |-> Top.res]
    /\ frames' = <<>>
    /\ UNCHANGED <<revision, budget, prov, ctx, db, bad, ibs, steps>>

\* SetStorageStep without the credit for clearing a slot that still holds its
\* original value
SetStorageStep_NoCredit(s, address, key, new_val, rev) ==
    LET current_val == get_current_storage(s, address, key)
        s1 == set_storage(s, address, key, new_val)
        eip1283 == rev >= Istanbul \/ rev = Constantinople
        sload_cost == IF rev >= Berlin THEN WARM_STORAGE_READ_COST
                      ELSE IF rev >= Istanbul THEN G_SLOAD_ISTANBUL
                      ELSE G_SLOAD_TANGERINE_WHISTLE
        sstore_reset_gas == IF rev >= Berlin THEN G_SRESET - COLD_SLOAD_COST
                            ELSE G_SRESET
        original_val == get_original_storage(s1, address, key)
        sstore_clears_refund ==
            IF rev >= London THEN sstore_reset_gas + ACCESS_LIST_STORAGE_KEY_COST
            ELSE R_SCLEAR
    IN IF ReadFails(address) THEN [ibs |-> Fail(s), status |-> "Error"]
       ELSE IF current_val = new_val THEN [ibs |-> s, status |-> "Unchanged"]
       ELSE IF ~eip1283
       THEN IF current_val = 0 THEN [ibs |-> s1, status |-> "Added"]
            ELSE IF new_val = 0
            THEN [ibs |-> add_refund(s1, R_SCLEAR), status |-> "Deleted"]
            ELSE [ibs |-> s1, status |-> "Modified"]
       ELSE IF original_val = current_val
       THEN IF original_val = 0 THEN [ibs |-> s1, status |-> "Added"]
            ELSE [ibs |-> s1, status |-> "Modified"]
       ELSE
         LET s2 == IF original_val # 0 /\ current_val = 0
                   THEN subtract_refund(s1, sstore_clears_refund) ELSE s1
             s3 == IF original_val # 0 /\ new_val = 0
                   THEN add_refund(s2, sstore_clears_refund) ELSE s2
             s4 == IF original_val = new_val
                   THEN add_refund(s3, IF original_val = 0
                                       THEN G_SSET - sload_cost
                                       ELSE sstore_reset_gas - sload_cost)
                   ELSE s3
         IN [ibs |-> s4, status |-> "ModifiedAgain"]

\* net metering is taken to hold from Constantinople on, Petersburg included
eip1283_Petersburg(rev) == rev >= Constantinople

\* lines 347-348
eip1283(rev) == rev >= Istanbul \/ rev = Constantinople

\* the price of a warm read is taken for that of a reset
sload_cost_Reset(rev) == G_SRESET

\* lines 361-369
sload_cost(rev) ==
    IF rev >= Berlin THEN WARM_STORAGE_READ_COST
    ELSE IF rev >= Istanbul THEN G_SLOAD_ISTANBUL
    ELSE G_SLOAD_TANGERINE_WHISTLE

\* the reset price is not reduced from Berlin
sstore_reset_gas_Flat(rev) == G_SRESET

\* lines 371-374
sstore_reset_gas(rev) ==
    IF rev >= Berlin THEN G_SRESET - COLD_SLOAD_COST ELSE G_SRESET

\* lines 381-385
sstore_clears_refund(rev) ==
    IF rev >= London THEN sstore_reset_gas(rev) + ACCESS_LIST_STORAGE_KEY_COST
    ELSE R_SCLEAR

\* SetStorageStep that leaves the clear refund in place when a cleared slot
\* is written again
SetStorageStep_KeepsClear(s, address, key, new_val, rev) ==
    LET current_val == get_current_storage(s, address, key)
        s1 == set_storage(s, address, key, new_val)
        original_val == get_original_storage(s1, address, key)
    IN IF ReadFails(address) THEN [ibs |-> Fail(s), status |-> "Error"]
       ELSE IF current_val = new_val THEN [ibs |-> s, status |-> "Unchanged"]
       ELSE IF ~eip1283(rev)
       THEN IF current_val = 0 THEN [ibs |-> s1, status |-> "Added"]
            ELSE IF new_val = 0
            THEN [ibs |-> add_refund(s1, R_SCLEAR), status |-> "Deleted"]
            ELSE [ibs |-> s1, status |-> "Modified"]
       ELSE IF original_val = current_val
       THEN IF original_val = 0 THEN [ibs |-> s1, status |-> "Added"]
            ELSE [ibs |-> IF new_val = 0 THEN add_refund(s1, sstore_clears_refund(rev))
                          ELSE s1,
                  status |-> "Modified"]
       ELSE
         LET s2 == s1
             s3 == IF original_val # 0 /\ new_val = 0
                   THEN add_refund(s2, sstore_clears_refund(rev)) ELSE s2
             s4 == IF original_val = new_val
                   THEN add_refund(s3, IF original_val = 0
                                       THEN G_SSET - sload_cost(rev)
                                       ELSE sstore_reset_gas(rev) - sload_cost(rev))
                   ELSE s3
         IN [ibs |-> s4, status |-> "ModifiedAgain"]

\* Evm::execute, lines 334-422
SetStorageStep(s, address, key, new_val, rev) ==
    LET current_val == get_current_storage(s, address, key)
        s1 == set_storage(s, address, key, new_val)
        original_val == get_original_storage(s1, address, key)
    IN IF ReadFails(address) THEN [ibs |-> Fail(s), status |-> "Error"]
       ELSE IF current_val = new_val THEN [ibs |-> s, status |-> "Unchanged"]
       ELSE IF ~eip1283(rev)
       THEN IF current_val = 0 THEN [ibs |-> s1, status |-> "Added"]
            ELSE IF new_val = 0
            THEN [ibs |-> add_refund(s1, R_SCLEAR), status |-> "Deleted"]
            ELSE [ibs |-> s1, status |-> "Modified"]
       ELSE IF original_val = current_val
       THEN IF original_val = 0 THEN [ibs |-> s1, status |-> "Added"]
            ELSE [ibs |-> IF new_val = 0 THEN add_refund(s1, sstore_clears_refund(rev))
                          ELSE s1,
                  status |-> "Modified"]
       ELSE
         LET s2 == IF original_val # 0 /\ current_val = 0
                   THEN subtract_refund(s1, sstore_clears_refund(rev)) ELSE s1
             s3 == IF original_val # 0 /\ new_val = 0
                   THEN add_refund(s2, sstore_clears_refund(rev)) ELSE s2
             s4 == IF original_val = new_val
                   THEN add_refund(s3, IF original_val = 0
                                       THEN G_SSET - sload_cost(rev)
                                       ELSE sstore_reset_gas(rev) - sload_cost(rev))
                   ELSE s3
         IN [ibs |-> s4, status |-> "ModifiedAgain"]

SetStorage(key, new_val) ==
    /\ CanStep
    /\ ~Top.msg.is_static
    /\ Resume(SetStorageStep(ibs, Top.msg.recipient, key, new_val, revision).ibs)
    /\ steps' = steps + 1
    /\ UNCHANGED <<revision, budget, prov, ctx, db, bad>>

\* the balance is credited to the beneficiary and kept by the address
SelfdestructStep_KeepBalance(s, address, beneficiary) ==
    LET s1 == record_selfdestruct(s, address)
        balance == get_balance(s1, address)
    IN IF ReadFails(address) THEN Fail(s1)
       ELSE add_to_balance(s1, beneficiary, balance)

\* SelfdestructStep that empties the account and credits nobody
SelfdestructStep_Burn(s, address, beneficiary) ==
    LET s1 == record_selfdestruct(s, address)
    IN IF ReadFails(address) THEN Fail(s1)
       ELSE set_balance(s1, address, 0)

\* Evm::execute, lines 456-465
SelfdestructStep(s, address, beneficiary) ==
    LET s1 == record_selfdestruct(s, address)
        balance == get_balance(s1, address)
    IN IF ReadFails(address) THEN Fail(s1)
       ELSE set_balance(add_to_balance(s1, beneficiary, balance), address, 0)

Selfdestruct(beneficiary) ==
    /\ CanStep
    /\ ~Top.msg.is_static
    /\ LET s == SelfdestructStep(ibs, Top.msg.recipient, beneficiary)
       IN IF s.err
          THEN Resume(s)
          ELSE /\ ibs' = s
               /\ frames' = [frames EXCEPT ![Len(frames)].nested = TRUE]
               /\ UNCHANGED result
    /\ steps' = steps + 1
    /\ UNCHANGED <<revision, budget, prov, ctx, db, bad>>

\* Evm::execute, lines 524-532
EmitLog ==
    /\ CanStep
    /\ ~Top.msg.is_static
    /\ Resume(add_log(ibs, [address |-> Top.msg.recipient, topics |-> <<>>,
                            data |-> Bytes_new]))
    /\ steps' = steps + 1
    /\ UNCHANGED <<revision, budget, prov, ctx, db, bad>>

\* the precompiles are looked up in the overlay like any other address
AccessAccountReturn_Overlay(s, address, rev) == AccountStatus(s, address)

\* Evm::execute, lines 533-542: the status the interpreter is resumed with
AccessAccountReturn(s, address, rev) ==
    IF is_precompiled(address, rev) THEN "Warm" ELSE AccountStatus(s, address)

\* AccessAccountStep promoting without the overlay's journal
AccessAccountStep_Unjournaled(s, address, rev) ==
    IF is_precompiled(address, rev) THEN s
    ELSE [s EXCEPT !.accessed_addresses = @ \cup {address}]

\* Evm::execute, lines 533-542
AccessAccountStep(s, address, rev) ==
    IF is_precompiled(address, rev) THEN s ELSE access_account(s, address)

AccessAccount(address) ==
    /\ CanStep
    /\ Resume(AccessAccountStep(ibs, address, revision))
    /\ steps' = steps + 1
    /\ UNCHANGED <<revision, budget, prov, ctx, db, bad>>

\* Evm::execute, lines 543-546
AccessStorage(key) ==
    /\ CanStep
    /\ Resume(access_storage(ibs, Top.msg.recipient, key))
    /\ steps' = steps + 1
    /\ UNCHANGED <<revision, budget, prov, ctx, db, bad>>

\* Evm::execute, lines 466-486, Call::Call: up to the nested interpreter's
\* start or, when call returns at once, to its result
CallInterrupt(mode, target, value, gas) ==
    /\ CanStep
    /\ Top.msg.is_static /\ mode = "Call" => value = 0
    /\ Enter(CallBegin(ibs, NestedMessage(Top, mode, target, value, gas)),
             Waiting)
    /\ steps' = steps + 1
    /\ UNCHANGED <<revision, budget, prov, ctx, db, bad>>

\* Evm::execute, lines 466-486, Call::Create
CreateInterrupt(endowment, salt) ==
    /\ CanStep
    /\ ~Top.msg.is_static
    /\ Enter(CreateBegin(ibs, NestedCreate(Top, endowment, salt)), Waiting)
    /\ steps' = steps + 1
    /\ UNCHANGED <<revision, budget, prov, ctx, db, bad>>

\* Evm::execute, lines 547-563, and the end of call (286-293) or create
\* (179-208) that follows the interpreter's completion
Complete(out) ==
    /\ Running
    /\ out \in Completions(Top.fn, Top.msg.gas)
    /\ LET fin == FrameFinish(ibs, Top, out)
       IN /\ ibs' = fin.ibs
          /\ frames' = [frames EXCEPT ![Len(frames)].pc = "done",
                                      ![Len(frames)].res = fin.res,
                                      ![Len(frames)].iret = out,
                                      ![Len(frames)].ret = NoIret]
    /\ UNCHANGED <<revision, budget, prov, ctx, db, bad, steps, result>>

\* the output of a nested create is handed back as it is
CallOutput_Whole(f) == f.res

\* Evm::execute, lines 468-483: what the caller is handed of the result of
\* the nested frame f (EIP-211)
CallOutput(f) ==
    IF f.fn = "create"
    THEN IF f.res.status_code = "Revert" THEN f.res
         ELSE [f.res EXCEPT !.output_data = Bytes_new]
    ELSE f.res

\* Evm::execute, line 485: the nested call or create returned, the caller's
\* interpreter is resumed with its output
ReturnToCaller ==
    /\ result.tag = "running"
    /\ Len(frames) >= 2
    /\ Top.pc = "done"
    /\ frames' = [SubSeq(frames, 1, Len(frames) - 1)
                     EXCEPT ![Len(frames) - 1].pc = "run",
                            ![Len(frames) - 1].ret = CallOutput(Top)]
    /\ UNCHANGED <<revision, budget, prov, ctx, db, bad, ibs, steps, result>>

\* What the transactions and the code of the model may name.
Senders == {Alice}
Recipients == {Alice, Bob, Tgt2, IdentityAddr}

\* The data and the gas of a transaction sent to address to: those sent into
\* the precompile range come with several inputs and with little gas too,
\* down to the cost of the identity contract for four bytes and one less.
InputsFor(to) ==
    CASE to = ExpmodAddr -> {Bytes_new, Input4, ExpWide}
      [] to = SnarkvAddr -> {Bytes_new, Input4}
      [] OTHER -> {Input4}

GasFor(to) ==
    IF to <= NUM_OF_ISTANBUL_CONTRACTS
    THEN TxGas \cup {LittleGas, 15 + 3, 15 + 2}
    ELSE TxGas
Values == {0, 1, 2}
Beneficiaries == {Alice}
Accessed == {Bob}
Creates == {<<0, None>>, <<0, Some(Tgt1)>>}

\* The CALL-family instructions the code of the model issues:
\* <<mode, target, value, gas>>.
AllGas == CHOOSE g \in TxGas : TRUE
Calls ==
    {<<"Call", Bob, 0, AllGas>>, <<"Call", Bob, 1, AllGas>>,
     <<"StaticCall", Bob, 0, AllGas>>, <<"DelegateCall", Bob, 0, AllGas>>,
     <<"CallCode", Bob, 1, AllGas>>, <<"StaticCall", Alice, 0, AllGas>>,
     <<"Call", SnarkvAddr, 0, LittleGas>>}

\* The completions the transactions of Next end their frames with: init-code
\* returns nothing, valid code, code that starts with 0xEF or code above the
\* size limit with all its gas left, or valid code with too little gas for
\* its deposit; called code returns with all its gas left.
Ends(fn, gas) ==
    {Output("Success", gas, o, None) :
        o \in IF fn = "create" THEN {Bytes_new, Code1, CodeEF, CodeBig}
              ELSE {Code1}}
    \cup (IF fn = "create"
          THEN {Output("Success", Least(gas, 199), Code1, None)}
          ELSE {})
    \cup {Output("Revert", Least(gas, 199), Code1, None)}
    \cup {Output(st, 0, Bytes_new, None) : st \in ErrStatuses}

Next ==
    \/ \E from \in Senders, to \in Recipients, value \in Values :
          \E gas \in GasFor(to), input_data \in InputsFor(to) :
             ExecuteCall(from, to, value, gas, input_data)
    \/ \E from \in Senders, value \in Values, gas \in TxGas :
          ExecuteCreate(from, value, gas)
    \/ ExecuteReturn
    \/ \E key \in Keys, new_val \in Vals : SetStorage(key, new_val)
    \/ \E beneficiary \in Beneficiaries : Selfdestruct(beneficiary)
    \/ EmitLog
    \/ \E address \in Accessed : AccessAccount(address)
    \/ \E key \in Keys : AccessStorage(key)
    \/ \E c \in Calls : CallInterrupt(c[1], c[2], c[3], c[4])
    \/ \E c \in Creates : CreateInterrupt(c[1], c[2])
    \/ \E out \in UNION {Ends(fn, gas) : fn \in {"call", "create"},
                                         gas \in TxGas \cup {LittleGas}} :
          Complete(out)
    \/ ReturnToCaller

Spec == Init /\ [][Next]_vars

(***************************************************************************)
(* The same machine over a backend some of whose reads fail: the account   *)
(* of Tgt2 cannot be read (SqliteBackend::read_account returns Err for an  *)
(* address that is not in the database), or the code of Bob cannot.        *)
(***************************************************************************)
BadChoices == {[acct |-> {Tgt2}, code |-> {}], [acct |-> {}, code |-> {Bob}]}

InitIO ==
    /\ revision \in Revisions
    /\ bad \in BadChoices
    /\ ibs = NewIntraBlockState
    /\ frames = <<>>
    /\ steps = 0
    /\ budget = MaxSteps
    /\ result = [tag |-> "idle", res |-> NoResult]
    /\ prov = NoProvider
    /\ ctx = NoContext
    /\ db = NoDatabase

SpecIO == InitIO /\ [][Next]_vars

(***************************************************************************)
(* The same machine under every revision, with one interrupt less per      *)
(* transaction.                                                            *)
(***************************************************************************)
AllRevisions == Frontier..Shanghai

InitRev ==
    /\ revision \in AllRevisions
    /\ bad = [acct |-> {}, code |-> {}]
    /\ ibs = NewIntraBlockState
    /\ frames = <<>>
    /\ steps = 0
    /\ budget = MaxSteps - 1
    /\ result = [tag |-> "idle", res |-> NoResult]
    /\ prov = NoProvider
    /\ ctx = NoContext
    /\ db = NoDatabase

\* Its transactions also go to the zero address and to the other contracts
\* of the table, its code also creates twice at one address, and its frames
\* end in every way the model has.
RevRecipients ==
    Recipients \cup {ZeroAddr, ExpmodAddr, SnarkvAddr, Blake2Addr}

RevCreates == Creates \cup {<<1, Some(Tgt1)>>}

NextRev ==
    \/ \E from \in Senders, to \in RevRecipients, value \in Values :
          \E gas \in GasFor(to), input_data \in InputsFor(to) :
             ExecuteCall(from, to, value, gas, input_data)
    \/ \E from \in Senders, value \in Values, gas \in TxGas :
          ExecuteCreate(from, value, gas)
    \/ ExecuteReturn
    \/ \E key \in Keys, new_val \in Vals : SetStorage(key, new_val)
    \/ \E beneficiary \in Beneficiaries : Selfdestruct(beneficiary)
    \/ EmitLog
    \/ \E address \in Accessed : AccessAccount(address)
    \/ \E key \in Keys : AccessStorage(key)
    \/ \E c \in Calls : CallInterrupt(c[1], c[2], c[3], c[4])
    \/ \E c \in RevCreates : CreateInterrupt(c[1], c[2])
    \/ \E out \in UNION {Completions(fn, gas) : fn \in {"call", "create"},
                                                gas \in TxGas \cup {LittleGas}} :
          Complete(out)
    \/ ReturnToCaller

SpecRev == InitRev /\ [][NextRev]_vars

(***************************************************************************)
(* The transactions that only create: a contract creation whose init-code  *)
(* creates again, with CREATE or with CREATE2 under one salt and either    *)
(* endowment.                                                              *)
(***************************************************************************)
NextCreate ==
    \/ \E from \in Senders, value \in Values, gas \in TxGas :
          ExecuteCreate(from, value, gas)
    \/ ExecuteReturn
    \/ \E c \in RevCreates : CreateInterrupt(c[1], c[2])
    \/ \E out \in UNION {Ends("create", gas) : gas \in TxGas} : Complete(out)
    \/ ReturnToCaller

SpecCreate == Init /\ [][NextCreate]_vars

(***************************************************************************)
(* The transactions that call Bob, whose slot 1 holds 1 in the backend,    *)
(* and whose code writes the slot and calls Bob again, under the revisions *)
(* around the changes of the storage-write rule.                           *)
(***************************************************************************)
StoreRevisions ==
    {Spurious, Constantinople, Petersburg, Istanbul, Berlin, London}

\* the values the code stores: zero, the original value and another one
StoreVals == Vals \cup {2}

\* the gas of a transaction whose code has 199 left after one write of a slot
\* it had not touched, which costs G_SRESET from Berlin on and before
StoreGas == {G_SRESET + 199}

InitStore ==
    /\ revision \in StoreRevisions
    /\ bad = [acct |-> {}, code |-> {}]
    /\ ibs = NewIntraBlockState
    /\ frames = <<>>
    /\ steps = 0
    /\ budget = StoreSteps
    /\ result = [tag |-> "idle", res |-> NoResult]
    /\ prov = NoProvider
    /\ ctx = NoContext
    /\ db = NoDatabase

NextStore ==
    \/ \E gas \in StoreGas : ExecuteCall(Alice, Bob, 0, gas, Input4)
    \/ ExecuteReturn
    \/ \E key \in Keys, new_val \in StoreVals : SetStorage(key, new_val)
    \/ \E gas \in StoreGas : CallInterrupt("Call", Bob, 0, gas)
    \/ \E out \in UNION {Completions("call", gas) : gas \in StoreGas} :
          Complete(out)
    \/ ReturnToCaller

SpecStore == InitStore /\ [][NextStore]_vars

(***************************************************************************)
(* The transactions that call Bob and whose code asks for the access       *)
(* status of Bob and of its own slot and calls Bob again, with one         *)
(* interrupt more than MaxSteps.                                           *)
(***************************************************************************)
InitAccess ==
    /\ revision \in Revisions
    /\ bad = [acct |-> {}, code |-> {}]
    /\ ibs = NewIntraBlockState
    /\ frames = <<>>
    /\ steps = 0
    /\ budget = MaxSteps + 1
    /\ result = [tag |-> "idle", res |-> NoResult]
    /\ prov = NoProvider
    /\ ctx = NoContext
    /\ db = NoDatabase

NextAccess ==
    \/ \E gas \in TxGas : ExecuteCall(Alice, Bob, 0, gas, Input4)
    \/ ExecuteReturn
    \/ \E address \in Accessed : AccessAccount(address)
    \/ \E key \in Keys : AccessStorage(key)
    \/ CallInterrupt("Call", Bob, 0, AllGas)
    \/ \E out \in UNION {Ends("call", gas) : gas \in TxGas} : Complete(out)
    \/ ReturnToCaller

SpecAccess == InitAccess /\ [][NextAccess]_vars

(***************************************************************************)
(* The transactions that call Bob and whose code emits logs, destroys      *)
(* itself, calls Bob again and creates, with the same number of            *)
(* interrupts.                                                             *)
(***************************************************************************)
NextLog ==
    \/ \E gas \in TxGas : ExecuteCall(Alice, Bob, 0, gas, Input4)
    \/ ExecuteReturn
    \/ EmitLog
    \/ \E beneficiary \in Beneficiaries : Selfdestruct(beneficiary)
    \/ CallInterrupt("Call", Bob, 0, AllGas)
    \/ CreateInterrupt(0, None)
    \/ \E out \in UNION {Ends(fn, gas) : fn \in {"call", "create"},
                                         gas \in TxGas} :
          Complete(out)
    \/ ReturnToCaller

SpecLog == InitAccess /\ [][NextLog]_vars

(***************************************************************************)
(* The transactions that call Bob and whose code creates with CREATE2      *)
(* under one salt, more than once, the init-code writing its slot.         *)
(***************************************************************************)
NextIncarnation ==
    \/ \E gas \in TxGas : ExecuteCall(Alice, Bob, 0, gas, Input4)
    \/ ExecuteReturn
    \/ \E key \in Keys, new_val \in Vals : SetStorage(key, new_val)
    \/ CreateInterrupt(0, Some(Tgt1))
    \/ \E out \in UNION {Ends(fn, gas) : fn \in {"call", "create"},
                                         gas \in TxGas} :
          Complete(out)
    \/ ReturnToCaller

SpecIncarnation == InitAccess /\ [][NextIncarnation]_vars

(***************************************************************************)
(* forked_evm_provider.rs: NumOps operations issued concurrently against   *)
(* one ForkedEvmProvider.  Each is an async fn that awaits the lock of the *)
(* tokio Mutex around the overlay, keeps the guard in a local and drops it *)
(* when it returns.  The operations that run execute send a transaction    *)
(* without recipient, so that create reads the sender's nonce and sets it  *)
(* one higher (evm.rs 124-125), two accesses of the overlay; the others    *)
(* read the overlay once.  prov.lock is the holder of the mutex, 0 when    *)
(* free; prov.seen[p] is what operation p read.                            *)
(***************************************************************************)
Ops == 1..NumOps

Operations ==
    {"call", "send_transaction", "deploy", "transact", "get_balance",
     "get_transaction_count", "get_storage_at"}

\* deploy, transact (95-132), send_transaction (196-214), call (216-241)
Executes(kind) == kind \in {"call", "send_transaction", "deploy", "transact"}

InitProvider ==
    /\ revision = London
    /\ bad = [acct |-> {}, code |-> {}]
    /\ ibs = NewIntraBlockState
    /\ frames = <<>>
    /\ steps = 0
    /\ budget = 0
    /\ result = [tag |-> "idle", res |-> NoResult]
    /\ ctx = NoContext
    /\ db = NoDatabase
    /\ prov \in {[lock |-> 0, kind |-> k, pc |-> [p \in Ops |-> "start"],
                   seen |-> [p \in Ops |-> 0]] : k \in [Ops -> Operations]}

\* a lock that is granted while another operation holds the guard
CanLock_Shared(lock) == TRUE

\* Mutex::lock().await completes when no guard is alive
CanLock(lock) == lock = 0

\* let mut lock = self.backend.lock().await
Lock(p) ==
    /\ prov.pc[p] = "start"
    /\ CanLock(prov.lock)
    /\ prov' = [prov EXCEPT !.lock = p, !.pc[p] = "locked"]
    /\ UNCHANGED <<revision, budget, ctx, db, bad, ibs, frames, steps, result>>

\* what the first overlay access of an operation of this kind returns
FirstRead(s, kind) ==
    CASE kind = "get_balance" -> get_balance(s, Alice)
      [] kind = "get_storage_at" -> get_current_storage(s, Bob, 1)
      [] OTHER -> get_nonce(s, Alice)

\* the first access: get_balance (179), get_nonce (193, evm.rs 124),
\* get_current_storage (257-258)
Read(p) ==
    /\ prov.pc[p] = "locked"
    /\ prov' = [prov EXCEPT !.pc[p] = "read",
                            !.seen[p] = FirstRead(ibs, prov.kind[p])]
    /\ UNCHANGED <<revision, budget, ctx, db, bad, ibs, frames, steps, result>>

\* evm.rs 125: set_nonce(message.sender, nonce + 1)
Write(p) ==
    /\ prov.pc[p] = "read"
    /\ Executes(prov.kind[p])
    /\ ibs' = set_nonce(ibs, Alice, prov.seen[p] + 1)
    /\ prov' = [prov EXCEPT !.pc[p] = "wrote"]
    /\ UNCHANGED <<revision, budget, ctx, db, bad, frames, steps, result>>

\* the operation returns and its guard is dropped
Return(p) ==
    /\ prov.pc[p] = IF Executes(prov.kind[p]) THEN "wrote" ELSE "read"
    /\ prov' = [prov EXCEPT !.pc[p] = "done",
                            !.lock = IF @ = p THEN 0 ELSE @]
    /\ UNCHANGED <<revision, budget, ctx, db, bad, ibs, frames, steps, result>>

NextProvider ==
    \E p \in Ops : Lock(p) \/ Read(p) \/ Write(p) \/ Return(p)

\* the executor polls every future it was given
SpecProvider ==
    InitProvider /\ [][NextProvider]_vars /\ WF_vars(NextProvider)

(***************************************************************************)
(* The transaction context: the effective gas price.                       *)
(***************************************************************************)
\* Option::unwrap_or_default on a U256
unwrap_or_default(o) == IF o = None THEN 0 ELSE CHOOSE x \in o : TRUE

\* the fee amounts a transaction or a header may carry
Fees == 0..MaxFee

OptionalFees == {None} \cup {Some(f) : f \in Fees}

TxTypes == {"Legacy", "Eip2930", "Eip1559"}

\* the priority fee is added uncapped
get_effective_gas_price_Uncapped(tx, base_fee_per_gas) ==
    CASE tx.type = "Legacy" -> Some(unwrap_or_default(tx.gas_price))
      [] tx.type = "Eip2930" -> Some(unwrap_or_default(tx.gas_price))
      [] tx.type = "Eip1559" ->
          IF tx.max_fee_per_gas # None
          THEN LET max_fee_per_gas == unwrap_or_default(tx.max_fee_per_gas)
               IN IF ~(max_fee_per_gas >= base_fee_per_gas)
                  THEN None
                  ELSE Some(unwrap_or_default(tx.max_priority_fee_per_gas)
                            + base_fee_per_gas)
          ELSE Some(0)

\* the price, or None when the assertion panics; U256 subtraction panics on
\* underflow, which the assertion excludes before max_fee - base_fee is taken
get_effective_gas_price(tx, base_fee_per_gas) ==
    CASE tx.type = "Legacy" -> Some(unwrap_or_default(tx.gas_price))
      [] tx.type = "Eip2930" -> Some(unwrap_or_default(tx.gas_price))
      [] tx.type = "Eip1559" ->
          IF tx.max_fee_per_gas # None
          THEN LET max_fee_per_gas == unwrap_or_default(tx.max_fee_per_gas)
               IN IF ~(max_fee_per_gas >= base_fee_per_gas)
                  THEN None
                  ELSE LET priority_gas_fee ==
                               Least(unwrap_or_default(tx.max_priority_fee_per_gas),
                                     max_fee_per_gas - base_fee_per_gas)
                       IN Some(priority_gas_fee + base_fee_per_gas)
          ELSE Some(0)

\* the interpreter asks for the transaction context and is resumed with it
GetTxContext ==
    /\ CanStep
    /\ LET base_fee_per_gas == unwrap_or_default(ctx.base_fee_per_gas)
           tx_gas_price == get_effective_gas_price(ctx, base_fee_per_gas)
       IN /\ ctx' = [ctx EXCEPT !.tx_gas_price = tx_gas_price]
          /\ result' = IF tx_gas_price = None
                       THEN [result EXCEPT !.tag = "panic"]
                       ELSE result
    /\ steps' = steps + 1
    /\ UNCHANGED <<revision, budget, prov, db, bad, ibs, frames>>

InitGasPrice ==
    /\ revision = London
    /\ bad = [acct |-> {}, code |-> {}]
    /\ ibs = NewIntraBlockState
    /\ frames = <<>>
    /\ steps = 0
    /\ budget = MaxSteps
    /\ result = [tag |-> "idle", res |-> NoResult]
    /\ prov = NoProvider
    /\ ctx \in [type : TxTypes, gas_price : OptionalFees,
                max_fee_per_gas : OptionalFees,
                max_priority_fee_per_gas : OptionalFees,
                base_fee_per_gas : OptionalFees, tx_gas_price : {None},
                number : {0}, block_number : {None}, hash : {None}]
    /\ db = NoDatabase

NextGasPrice ==
    \/ \E gas \in TxGas : ExecuteCall(Alice, Bob, 0, gas, Input4)
    \/ GetTxContext
    \/ \E out \in UNION {Ends("call", gas) : gas \in TxGas} : Complete(out)
    \/ ExecuteReturn

SpecGasPrice == InitGasPrice /\ [][NextGasPrice]_vars

(***************************************************************************)
(* The SQLite file: SqliteDumper writes it, SqliteBackend reads it.        *)
(* A U256 is its sixteen 16-bit limbs, least significant first; a byte     *)
(* string is a sequence of bytes; a text is a sequence of characters, the  *)
(* characters 0..9 and a..f being written 0..15.                           *)
(***************************************************************************)
U256Limbs == 16

U64Limbs == 4

LimbBase == 65536

AddressBytes == 20

Ok(v) == [tag |-> "Ok", val |-> v]

Err(m) == [tag |-> "Err", val |-> m]

Panicked(m) == [tag |-> "panic", val |-> m]

\* the U256 of a small number
U256_from(n) ==
    [i \in 1..U256Limbs |-> IF i = 1 THEN n % LimbBase
                            ELSE IF i = 2 THEN (n \div LimbBase) % LimbBase
                            ELSE 0]

\* 2^64, the least nonce that is no u64
Two64 == [i \in 1..U256Limbs |-> IF i = U64Limbs + 1 THEN 1 ELSE 0]

is_zero(u) == \A i \in 1..Len(u) : u[i] = 0

\* u divided by ten, from the top limb down, and the remainder
RECURSIVE div_mod_10(_, _, _)
div_mod_10(u, i, rem) ==
    IF i = 0 THEN [quot |-> u, rem |-> rem]
    ELSE LET cur == rem * LimbBase + u[i]
         IN div_mod_10([u EXCEPT ![i] = cur \div 10], i - 1, cur % 10)

RECURSIVE dec_digits(_)
dec_digits(u) ==
    IF is_zero(u) THEN <<>>
    ELSE LET d == div_mod_10(u, Len(u), 0)
         IN Append(dec_digits(d.quot), d.rem)

\* format!("{}", u) and format!("{:?}", u): the decimal digits of a U256
fmt_Display(u) == IF is_zero(u) THEN <<0>> ELSE dec_digits(u)

\* u * radix + digit, limb by limb; None when it no longer fits the limbs
RECURSIVE mul_add(_, _, _, _)
mul_add(u, radix, carry, i) ==
    IF i > Len(u) THEN IF carry = 0 THEN Some(u) ELSE None
    ELSE LET cur == u[i] * radix + carry
         IN mul_add([u EXCEPT ![i] = cur % LimbBase], radix,
                    cur \div LimbBase, i + 1)

RECURSIVE parse_digits(_, _, _)
parse_digits(text, radix, acc) ==
    IF text = <<>> THEN Ok(acc)
    ELSE IF Head(text) >= radix THEN Err("InvalidCharacter")
    ELSE LET next == mul_add(acc, radix, Head(text), 1)
         IN IF next = None THEN Err("InvalidLength")
            ELSE parse_digits(Tail(text), radix,
                              CHOOSE x \in next : TRUE)

\* the digits are read in base sixteen
from_dec_str_Hex(text) == parse_digits(text, 16, U256_from(0))

\* U256::from_dec_str
from_dec_str(text) == parse_digits(text, 10, U256_from(0))

\* U256::as_u64: the low word, a panic when the number does not fit it
as_u64(u) ==
    IF \E i \in (U64Limbs + 1)..Len(u) : u[i] # 0
    THEN Panicked("Integer overflow when casting to u64")
    ELSE Ok(SubSeq(u, 1, U64Limbs))

\* hex::encode: two characters for every byte
RECURSIVE hex_encode(_)
hex_encode(bytes) ==
    IF bytes = <<>> THEN <<>>
    ELSE <<Head(bytes) \div 16, Head(bytes) % 16>> \o hex_encode(Tail(bytes))

\* hex::decode
RECURSIVE hex_decode(_)
hex_decode(text) ==
    IF text = <<>> THEN Ok(<<>>)
    ELSE IF Len(text) % 2 = 1 THEN Err("OddLength")
    ELSE LET rest == hex_decode(Tail(Tail(text)))
         IN Ok(<<text[1] * 16 + text[2]>> \o rest.val)

\* H256::from_str and Address::from_str: the hexadecimal text of exactly
\* that many bytes
fixed_from_str(text, size) ==
    IF Len(text) # 2 * size THEN Err("InvalidHexLength")
    ELSE hex_decode(text)

\* Address::as_bytes: twenty bytes, big-endian
address_bytes(a) == [i \in 1..AddressBytes |-> IF i = AddressBytes THEN a ELSE 0]

\* the H256 whose last byte is n
H256_low(n) == [i \in 1..H256Bytes |-> IF i = H256Bytes THEN n ELSE 0]

\* keccak256 of a code of less than 32 bytes, by an injective stand-in of
\* the digest: the length followed by the bytes
keccak256(code) ==
    [i \in 1..H256Bytes |-> IF i = 1 THEN Len(code)
                            ELSE IF i - 1 <= Len(code) THEN code[i - 1]
                            ELSE 0]

\* the rows of a table a query selects: those that hold the values of the
\* WHERE clause in its columns
select(table, where) ==
    {i \in 1..Len(table) : \A column \in DOMAIN where : table[i][column] = where[column]}

\* query_row: one of the selected rows (the statements have no ORDER BY),
\* QueryReturnedNoRows when there is none
query_row(table, where) ==
    LET rows == select(table, where)
    IN IF rows = {} THEN {Err("QueryReturnedNoRows")}
       ELSE {Ok(table[i]) : i \in rows}

Dumping == db.got = None /\ Len(db.dumped) < MaxDumps

\* the file d after the rows of dump_address are inserted
dump_address_on(d, address, balance, nonce, code) ==
    LET address_text == hex_encode(address_bytes(address))
        balance_text == fmt_Display(balance)
        nonce_text == fmt_Display(nonce)
        code_hash == keccak256(code)
        code_hash_text == hex_encode(code_hash)
        code_text == hex_encode(code)
    IN [d EXCEPT
              !.balance = Append(@, [address |-> address_text,
                                     balance |-> balance_text]),
              !.nonce = Append(@, [address |-> address_text,
                                   nonce |-> nonce_text]),
              !.code = Append(@, [address |-> address_text,
                                  hash |-> code_hash_text,
                                  code |-> code_text]),
              !.dumped = Append(@, [op |-> "dump_address",
                                    address |-> address,
                                    balance |-> balance, nonce |-> nonce,
                                    code |-> code])]

dump_address(address, balance, nonce, code) ==
    /\ Dumping
    /\ db' = dump_address_on(db, address, balance, nonce, code)
    /\ UNCHANGED <<revision, budget, prov, ctx, bad, ibs, frames, steps, result>>

\* the file d after the rows of dump_storage are inserted
dump_storage_on(d, address, key, value) ==
    LET address_text == hex_encode(address_bytes(address))
        key_text == hex_encode(key)
        value_text == hex_encode(value)
    IN [d EXCEPT
              !.storage = Append(@, [address |-> address_text,
                                     slot |-> key_text,
                                     value |-> value_text]),
              !.dumped = Append(@, [op |-> "dump_storage",
                                    address |-> address, key |-> key,
                                    value |-> value])]

dump_storage(address, key, value) ==
    /\ Dumping
    /\ db' = dump_storage_on(db, address, key, value)
    /\ UNCHANGED <<revision, budget, prov, ctx, bad, ibs, frames, steps, result>>

\* the file d after the rows of dump_block_header are inserted
dump_block_header_on(d, block_number, hash, base_fee_per_gas, timestamp, gas_limit, difficulty, beneficiary) ==
    LET hash_text == hex_encode(hash)
        base_fee_per_gas_text == fmt_Display(base_fee_per_gas)
        difficulty_text == fmt_Display(difficulty)
        beneficiary_text == hex_encode(address_bytes(beneficiary))
    IN [d EXCEPT
              !.block = Append(@, [number |-> block_number,
                                   hash |-> hash_text,
                                   base_fee_per_gas |-> base_fee_per_gas_text,
                                   timestamp |-> timestamp,
                                   gas_limit |-> gas_limit,
                                   difficulty |-> difficulty_text,
                                   beneficiary |-> beneficiary_text]),
              !.dumped = Append(@, [op |-> "dump_block_header",
                                    block_number |-> block_number,
                                    hash |-> hash,
                                    base_fee_per_gas |-> base_fee_per_gas,
                                    timestamp |-> timestamp,
                                    gas_limit |-> gas_limit,
                                    difficulty |-> difficulty,
                                    beneficiary |-> beneficiary])]

dump_block_header(block_number, hash, base_fee_per_gas, timestamp, gas_limit, difficulty, beneficiary) ==
    /\ Dumping
    /\ db' = dump_block_header_on(db, block_number, hash, base_fee_per_gas, timestamp, gas_limit, difficulty, beneficiary)
    /\ UNCHANGED <<revision, budget, prov, ctx, bad, ibs, frames, steps, result>>

\* the outcomes of read_account on the tables
read_account_of(tables, address) ==
    LET address_text == hex_encode(address_bytes(address))
        ThisAddress == [address |-> address_text]
    IN {IF balance_row.tag = "Err" THEN Err("failed to get balance")
        ELSE IF nonce_row.tag = "Err" THEN Err("failed to get nonce")
        ELSE IF code_row.tag = "Err" THEN Err("failed to get code_hash")
        ELSE LET balance == from_dec_str(balance_row.val.balance)
                 nonce == from_dec_str(nonce_row.val.nonce)
                 code_hash == fixed_from_str(code_row.val.hash, H256Bytes)
             IN IF balance.tag = "Err" THEN balance
                ELSE IF nonce.tag = "Err" THEN nonce
                ELSE IF code_hash.tag = "Err" THEN code_hash
                ELSE IF as_u64(nonce.val).tag = "panic" THEN as_u64(nonce.val)
                ELSE Ok(Some([nonce |-> as_u64(nonce.val).val,
                              balance |-> balance.val,
                              code_hash |-> code_hash.val,
                              incarnation |-> 0])) :
        balance_row \in query_row(tables.balance, ThisAddress),
        nonce_row \in query_row(tables.nonce, ThisAddress),
        code_row \in query_row(tables.code, ThisAddress)}

read_code_of(tables, code_hash) ==
    LET code_hash_text == hex_encode(code_hash)
        ThisHash == [hash |-> code_hash_text]
    IN {IF code_row.tag = "Err" THEN Err("failed to get code hash")
        ELSE hex_decode(code_row.val.code) :
        code_row \in query_row(tables.code, ThisHash)}

\* the incarnation takes no part in the query
read_storage_of(tables, address, incarnation, location) ==
    LET address_text == hex_encode(address_bytes(address))
        location_text == hex_encode(location)
        ThisSlot == [address |-> address_text, slot |-> location_text]
    IN {IF value_row.tag = "Err" THEN Err("failed to get storage")
        ELSE LET value == fixed_from_str(value_row.val.value, H256Bytes)
             IN IF value.tag = "Err" THEN Panicked("failed to parse storage")
                ELSE value :
        value_row \in query_row(tables.storage, ThisSlot)}

read_block_header_of(tables, block_number) ==
    LET ThisNumber == [number |-> block_number]
    IN {IF block_row.tag = "Err" THEN Err("failed to get block info")
        ELSE LET hash == fixed_from_str(block_row.val.hash, H256Bytes)
                 base_fee_per_gas == from_dec_str(block_row.val.base_fee_per_gas)
                 difficulty == from_dec_str(block_row.val.difficulty)
                 beneficiary == fixed_from_str(block_row.val.beneficiary,
                                               AddressBytes)
             IN IF \E parsed \in {hash, base_fee_per_gas, difficulty, beneficiary} :
                       parsed.tag = "Err"
                THEN Panicked("unwrap")
                ELSE Ok(Some([difficulty |-> difficulty.val,
                              number |-> block_number,
                              gas_limit |-> block_row.val.gas_limit,
                              timestamp |-> block_row.val.timestamp,
                              base_fee_per_gas |-> Some(base_fee_per_gas.val),
                              hash |-> hash.val,
                              beneficiary |-> beneficiary.val])) :
        block_row \in query_row(tables.block, ThisNumber)}

\* a SqliteBackend opened on the file answers a read; the connection is read
\* only, so every read finds the file as the first one does and one is kept
Answer(op, args, outcomes) ==
    /\ db.dumped # <<>>
    /\ db.got = None
    /\ \E res \in outcomes :
           db' = [db EXCEPT !.got = Some([op |-> op, args |-> args, res |-> res])]
    /\ UNCHANGED <<revision, budget, prov, ctx, bad, ibs, frames, steps, result>>

read_account(address) ==
    Answer("read_account", <<address>>, read_account_of(db, address))

read_code(code_hash) ==
    Answer("read_code", <<code_hash>>, read_code_of(db, code_hash))

read_storage(address, incarnation, location) ==
    Answer("read_storage", <<address, incarnation, location>>,
           read_storage_of(db, address, incarnation, location))

read_block_header(block_number) ==
    Answer("read_block_header", <<block_number>>,
           read_block_header_of(db, block_number))

\* the values dumped and asked for
DumpAddresses == {Alice, Bob}

DumpBalances == {U256_from(1234)}

DumpNonces == {U256_from(5678), Two64}

DumpCodes == {<<>>, <<8, 9, 10>>}

DumpSlots == {H256_low(1)}

DumpValues == {H256_low(0), H256_low(255)}

DumpNumbers == {13330}

DumpBaseFees == {U256_from(6666)}

DumpHashes == {H256_low(3)}

DumpTimes == {1239}

DumpGasLimits == {9999}

DumpDifficulties == {U256_from(0)}

Incarnations == {0, 1}

InitSqlite ==
    /\ revision = London
    /\ bad = [acct |-> {}, code |-> {}]
    /\ ibs = NewIntraBlockState
    /\ frames = <<>>
    /\ steps = 0
    /\ budget = 0
    /\ result = [tag |-> "idle", res |-> NoResult]
    /\ prov = NoProvider
    /\ ctx = NoContext
    /\ db = NoDatabase

NextSqlite ==
    \/ \E address \in DumpAddresses, balance \in DumpBalances,
          nonce \in DumpNonces, code \in DumpCodes :
           dump_address(address, balance, nonce, code)
    \/ \E address \in DumpAddresses, key \in DumpSlots, value \in DumpValues :
           dump_storage(address, key, value)
    \/ \E block_number \in DumpNumbers, hash \in DumpHashes,
          base_fee_per_gas \in DumpBaseFees, timestamp \in DumpTimes,
          gas_limit \in DumpGasLimits, difficulty \in DumpDifficulties,
          beneficiary \in DumpAddresses :
           dump_block_header(block_number, hash, base_fee_per_gas, timestamp,
                             gas_limit, difficulty, beneficiary)
    \/ \E address \in DumpAddresses : read_account(address)
    \/ \E code \in DumpCodes : read_code(keccak256(code))
    \/ \E address \in DumpAddresses, incarnation \in Incarnations,
          location \in DumpSlots :
           read_storage(address, incarnation, location)
    \/ \E block_number \in DumpNumbers : read_block_header(block_number)

SpecSqlite == InitSqlite /\ [][NextSqlite]_vars

(***************************************************************************)
(* The transactions whose code writes one slot several times: Bob's slot   *)
(* holds 1 in the backend, the slot of a contract being created holds 0.   *)
(***************************************************************************)
InitNet ==
    /\ revision \in AllRevisions
    /\ bad = [acct |-> {}, code |-> {}]
    /\ ibs = NewIntraBlockState
    /\ frames = <<>>
    /\ steps = 0
    /\ budget = StoreSteps - 1
    /\ result = [tag |-> "idle", res |-> NoResult]
    /\ prov = NoProvider
    /\ ctx = NoContext
    /\ db = NoDatabase

NextNet ==
    \/ \E gas \in TxGas : ExecuteCall(Alice, Bob, 0, gas, Input4)
    \/ \E gas \in TxGas : ExecuteCreate(Alice, 0, gas)
    \/ ExecuteReturn
    \/ \E key \in Keys, new_val \in StoreVals : SetStorage(key, new_val)
    \/ \E out \in UNION {Ends(fn, gas) : fn \in {"call", "create"}, gas \in TxGas} :
          Complete(out)

SpecNet == InitNet /\ [][NextNet]_vars

(***************************************************************************)
(* The transactions, calls of Bob and creations, whose code asks for the   *)
(* access status of an address.                                            *)
(***************************************************************************)
Asked == {Alice, Bob, Tgt1, Tgt2, IdentityAddr, SnarkvAddr, Blake2Addr}

InitWarm ==
    /\ revision \in AllRevisions
    /\ bad = [acct |-> {}, code |-> {}]
    /\ ibs = NewIntraBlockState
    /\ frames = <<>>
    /\ steps = 0
    /\ budget = MaxSteps
    /\ result = [tag |-> "idle", res |-> NoResult]
    /\ prov = NoProvider
    /\ ctx = NoContext
    /\ db = NoDatabase

NextWarm ==
    \/ \E gas \in TxGas : ExecuteCall(Alice, Bob, 0, gas, Input4)
    \/ \E gas \in TxGas : ExecuteCreate(Alice, 0, gas)
    \/ ExecuteReturn
    \/ \E address \in Asked : AccessAccount(address)
    \/ \E out \in UNION {Ends(fn, gas) : fn \in {"call", "create"}, gas \in TxGas} :
          Complete(out)

SpecWarm == InitWarm /\ [][NextWarm]_vars

(***************************************************************************)
(* The transactions that call Bob, with or without value, and whose code   *)
(* destroys itself in favour of Alice, of itself or of an address that     *)
(* does not exist.                                                         *)
(***************************************************************************)
Heirs == {Alice, Bob, Tgt2}

NextDestruct ==
    \/ \E value \in {0, 1}, gas \in TxGas : ExecuteCall(Alice, Bob, value, gas, Input4)
    \/ ExecuteReturn
    \/ \E beneficiary \in Heirs : Selfdestruct(beneficiary)
    \/ \E out \in UNION {Ends("call", gas) : gas \in TxGas} : Complete(out)

SpecDestruct == InitAccess /\ [][NextDestruct]_vars

(***************************************************************************)
(* The block hashes: the backend holds the header of every block up to    *)
(* the current one.                                                        *)
(***************************************************************************)
\* the hash of the header the backend holds for a block
BackendHash(block_number) == [i \in 1..H256Bytes |-> IF i = 1 THEN 1
                                                     ELSE IF i = H256Bytes - 1 THEN block_number \div 256
                                                     ELSE IF i = H256Bytes THEN block_number % 256
                                                     ELSE 0]

\* the window is taken one block wider
BlockHash_Wider(base_number, n) ==
    LET distance == base_number - n
    IN IF ~(distance <= 257) THEN None ELSE Some(BackendHash(n))

\* Evm::execute, lines 514-520: the hash the interpreter is resumed with,
\* None when the assertion fails
BlockHash(base_number, n) ==
    LET distance == base_number - n
    IN IF ~(distance <= 256) THEN None ELSE Some(BackendHash(n))

GetBlockHash(n) ==
    /\ CanStep
    /\ n <= ctx.number
    /\ LET hash == BlockHash(ctx.number, n)
       IN /\ ctx' = [ctx EXCEPT !.block_number = Some(n), !.hash = hash]
          /\ result' = IF hash = None
                       THEN [result EXCEPT !.tag = "panic"]
                       ELSE result
    /\ steps' = steps + 1
    /\ UNCHANGED <<revision, budget, prov, db, bad, ibs, frames>>

\* the numbers of the current header and the distances asked for
HeaderNumbers == {0, 256, 257, 600}

Distances == {0, 1, 255, 256, 257, 258, 600}

InitBlockHash ==
    /\ revision = London
    /\ bad = [acct |-> {}, code |-> {}]
    /\ ibs = NewIntraBlockState
    /\ frames = <<>>
    /\ steps = 0
    /\ budget = MaxSteps
    /\ result = [tag |-> "idle", res |-> NoResult]
    /\ prov = NoProvider
    /\ ctx \in {[NoContext EXCEPT !.number = number] : number \in HeaderNumbers}
    /\ db = NoDatabase

NextBlockHash ==
    \/ \E gas \in TxGas : ExecuteCall(Alice, Bob, 0, gas, Input4)
    \/ \E distance \in Distances : GetBlockHash(ctx.number - distance)
    \/ \E out \in UNION {Ends("call", gas) : gas \in TxGas} : Complete(out)
    \/ ExecuteReturn

SpecBlockHash == InitBlockHash /\ [][NextBlockHash]_vars

(***************************************************************************)
(* The four kinds of call the interpreter asks for, under a root call      *)
(* that carries value and under a static one.                              *)
(***************************************************************************)
Modes == {"Call", "StaticCall", "DelegateCall", "CallCode"}

Targets == {Alice, Bob, Tgt2, IdentityAddr}

NextKinds ==
    \/ \E from \in {Alice, ZeroAddr}, value \in Values, gas \in TxGas :
          ExecuteCall(from, Bob, value, gas, Input4)
    \/ ExecuteReturn
    \/ \E mode \in Modes, target \in {Bob, Tgt2}, value \in {0, 1} :
          CallInterrupt(mode, target, value, AllGas)
    \/ \E out \in UNION {Ends("call", gas) : gas \in TxGas} : Complete(out)
    \/ ReturnToCaller

SpecKinds == InitAccess /\ [][NextKinds]_vars

(***************************************************************************)
(* Root calls to ecrecover: signatures inside and outside the valid range, *)
(* inputs shorter and longer than 128 bytes.                               *)
(***************************************************************************)
EcWords ==
    {u256_bytes(0), u256_bytes(1), [UPPER EXCEPT ![H256Bytes] = @ - 1], UPPER,
     [UPPER EXCEPT ![H256Bytes] = @ + 1], [i \in 1..H256Bytes |-> 255]}

EcV ==
    {u256_bytes(27), u256_bytes(28), u256_bytes(0), u256_bytes(29),
     [u256_bytes(27) EXCEPT ![1] = 1]}

EcHashes == {u256_bytes(0), u256_bytes(1)}

EcLengths == {0, 96, 128, 130}

EcInputs ==
    {SubSeq(hash \o v \o r \o s \o <<7, 7>>, 1, len) :
        hash \in EcHashes, v \in EcV, r \in EcWords, s \in EcWords,
        len \in EcLengths}

EcGas == TxGas \cup {3000, 2999}

NextEcrecover ==
    \/ \E value \in Values, gas \in EcGas, input \in EcInputs :
          ExecuteCall(Alice, EcrecoverAddr, value, gas, input)
    \/ ExecuteReturn

SpecEcrecover == InitAccess /\ [][NextEcrecover]_vars

(***************************************************************************)
(* Root calls to the pairing check and to Blake2F with inputs of the       *)
(* lengths around a stride and around 213 bytes.                           *)
(***************************************************************************)
\* an input of zero bytes but for its last byte
Padded(len, last) == [len |-> len, first |-> 0, tag |-> last, last |-> last]

PairingInputs ==
    {Bytes_new, Input4, Padded(191, 0), Padded(192, 0), Padded(193, 0),
     Padded(384, 0), Padded(192, 1)}

Blake2Inputs ==
    {Bytes_new, Input4, Padded(212, 0), Padded(214, 1), Padded(213, 0),
     Padded(213, 1), Padded(213, 2), Padded(213, 255)}

PairingGas == TxGas \cup {45000, 45000 - 1}

NextPairing ==
    \/ \E value \in Values, gas \in PairingGas, input \in PairingInputs :
          ExecuteCall(Alice, SnarkvAddr, value, gas, input)
    \/ \E value \in Values, gas \in PairingGas, input \in Blake2Inputs :
          ExecuteCall(Alice, Blake2Addr, value, gas, input)
    \/ ExecuteReturn

SpecPairing == InitRev /\ [][NextPairing]_vars

(***************************************************************************)
(* The price of expmod for declared lengths around the steps of the        *)
(* complexity function and around the width of a usize, in a build with    *)
(* overflow checks and in one without.                                     *)
(***************************************************************************)
\* expmod_gas is evaluated on an input; a build with overflow checks panics
\* where the multiplication of line 194 overflows, a build without goes on
\* with the wrapped product
PriceExpmod(input) ==
    /\ result.tag = "idle"
    /\ \E overflow_checks \in BOOLEAN :
          LET priced == expmod_gas(input, revision)
          IN result' = IF overflow_checks /\ priced.overflow
                       THEN [tag |-> "panic",
                             res |-> [input |-> input, gas |-> None]]
                       ELSE [tag |-> "priced",
                             res |-> [input |-> input, gas |-> priced.gas]]
    /\ UNCHANGED <<revision, budget, prov, ctx, db, bad, ibs, frames, steps>>

to_big_endian(x) == [i \in 1..U256Bytes |-> x[U256Bytes + 1 - i]]

Pow2(k) ==
    [i \in 1..U256Bytes |-> IF i = k \div 8 + 1 THEN 2^(k % 8) ELSE 0]

MaxU64 == [i \in 1..U256Bytes |-> IF i <= 8 THEN 255 ELSE 0]

BaseLens == {u256(0), u256(1), u256(65), u256(1025), MaxU64, Pow2(64)}

ExpLens ==
    {u256(0), u256(1), u256(33), u256_add(Pow2(61), u256(31)),
     u256_add(Pow2(61), u256(32)), MaxU64}

ModLens == {u256(0), u256(1), u256(1025)}

Bodies == {<<>>, <<3>>, <<1, 255>>}

ModexpInputs ==
    {to_big_endian(b) \o to_big_endian(e) \o to_big_endian(m) \o body :
        b \in BaseLens, e \in ExpLens, m \in ModLens, body \in Bodies}
    \cup {<<>>, <<1, 0, 0, 0>>}

InitModexp ==
    /\ revision \in {Byzantium, Istanbul, Berlin, London}
    /\ bad = [acct |-> {}, code |-> {}]
    /\ ibs = NewIntraBlockState
    /\ frames = <<>>
    /\ steps = 0
    /\ budget = MaxSteps
    /\ result = [tag |-> "idle", res |-> NoResult]
    /\ prov = NoProvider
    /\ ctx = NoContext
    /\ db = NoDatabase

NextModexp == \E input \in ModexpInputs : PriceExpmod(input)

SpecModexp == InitModexp /\ [][NextModexp]_vars

(***************************************************************************)
(* The transactions with and without sender, recipient and value, run to   *)
(* the end of their root frame.                                            *)
(***************************************************************************)
Txns ==
    [from : {None, Some(ZeroAddr), Some(Alice)},
     to : {None, Some(Bob), Some(Tgt2)},
     value : {None} \cup {Some(value) : value \in Values},
     data : {None, Some(Input4)}]

NextExecute ==
    \/ \E txn \in Txns, gas \in TxGas : Execute(txn, gas)
    \/ \E out \in UNION {Ends(fn, AllGas) : fn \in {"call", "create"}} :
          Complete(out)
    \/ ExecuteReturn

SpecExecute == InitAccess /\ [][NextExecute]_vars

(***************************************************************************)
(* StateMuxer (state_muxer.rs) over Web3RemoteState (forked_backend.rs)    *)
(* and the SQLite file.  The remote node holds Alice, an account without   *)
(* code, Bob, a contract, and nothing at Tgt1; its chain has the pinned    *)
(* block, with a base fee, and the block before it, without one.  Next to  *)
(* the tables db holds the mode of the muxer, the code_hash_map of the     *)
(* remote state, the number of requests sent to the node and the reads     *)
(* the tee session answered.                                               *)
(***************************************************************************)
StateBlock == CHOOSE block_number \in DumpNumbers : TRUE

RemoteBalance(address) ==
    IF address \in {Alice, Bob} THEN CHOOSE balance \in DumpBalances : TRUE
    ELSE U256_from(0)

RemoteNonce(address) ==
    IF address = Alice THEN U256_from(5678) ELSE U256_from(0)

RemoteCode(address) == IF address = Bob THEN <<8, 9, 10>> ELSE <<>>

RemoteStorage(address, location) ==
    IF address = Bob THEN H256_low(255) ELSE H256_low(0)

RemoteBlock(block_number) ==
    IF block_number \in {StateBlock, StateBlock - 1}
    THEN Some([hash |-> H256_low(block_number % 256), author |-> Alice,
               difficulty |-> U256_from(0), gas_limit |-> 9999,
               timestamp |-> 1239,
               base_fee_per_gas |-> IF block_number = StateBlock
                                    THEN Some(U256_from(6666)) ELSE None])
    ELSE None

\* Web3RemoteState::read_account, lines 40-66: three requests; the account
\* and the code_hash_map after it
web3_read_account(web3, address) ==
    LET balance == RemoteBalance(address)
        nonce == RemoteNonce(address)
        code == RemoteCode(address)
    IN IF is_zero(balance) /\ is_zero(nonce) /\ code = <<>>
       THEN [web3 |-> web3, res |-> Ok(None)]
       ELSE LET code_hash == keccak256(code)
            IN [web3 |-> [web3 EXCEPT !.code_hash_map =
                             @ \cup {[hash |-> code_hash, code |-> code]}],
                res |-> IF as_u64(nonce).tag = "panic" THEN as_u64(nonce)
                        ELSE Ok(Some([nonce |-> as_u64(nonce).val,
                                      balance |-> balance,
                                      code_hash |-> code_hash,
                                      incarnation |-> 0]))]

\* Web3RemoteState::read_code, lines 68-71
web3_read_code(web3, code_hash) ==
    LET found == {e \in web3.code_hash_map : e.hash = code_hash}
    IN IF found = {} THEN Panicked("unwrap")
       ELSE Ok((CHOOSE e \in found : TRUE).code)

\* Web3RemoteState::read_storage, lines 73-85
web3_read_storage(address, incarnation, location) ==
    Ok(RemoteStorage(address, location))

\* Web3RemoteState::read_block_header, lines 87-104: number is the pinned
\* block whatever block was asked for
web3_read_block_header(block_number) ==
    LET block == RemoteBlock(block_number)
    IN IF block = None THEN Ok(None)
       ELSE LET b == CHOOSE x \in block : TRUE
            IN Ok(Some([difficulty |-> b.difficulty,
                        number |-> StateBlock,
                        gas_limit |-> b.gas_limit,
                        timestamp |-> b.timestamp,
                        base_fee_per_gas |-> b.base_fee_per_gas,
                        hash |-> b.hash,
                        beneficiary |-> b.author]))

\* u64 into U256
into_U256(n) == [i \in 1..U256Limbs |-> IF i <= Len(n) THEN n[i] ELSE 0]

\* StateMuxer::new, lines 26-46
StateMuxer_new(config) ==
    [web3 |-> IF config = "LocalOnly" THEN None
              ELSE Some([code_hash_map |-> {}]),
     dumper |-> config = "TeeWeb3ToLocal",
     db |-> config = "LocalOnly"]

Web3 == CHOOSE web3 \in db.mux.web3 : TRUE

Teeing == ~db.mux.db /\ Len(db.session) < MaxDumps

\* the muxer has answered the read op(args) with res from the remote node,
\* to which it sent so many requests, and has left the file d
Answered(d, web3, op, args, res, requests) ==
    /\ db' = [d EXCEPT !.mux.web3 = Some(web3),
                       !.sent = @ + requests,
                       !.session = Append(@, [op |-> op, args |-> args,
                                              res |-> res])]
    /\ UNCHANGED <<revision, budget, prov, ctx, bad, ibs, frames, steps, result>>

\* read_storage that does not write the value back
StateMuxer_read_storage_NoDump(address, incarnation, location) ==
    IF db.mux.db THEN read_storage(address, incarnation, location)
    ELSE /\ Teeing
         /\ Answered(db, Web3, "read_storage",
                     <<address, incarnation, location>>,
                     web3_read_storage(address, incarnation, location), 1)

\* State for StateMuxer: read_account, lines 50-76
StateMuxer_read_account(address) ==
    IF db.mux.db THEN read_account(address)
    ELSE /\ Teeing
         /\ LET r == web3_read_account(Web3, address)
                ret == r.res
            IN IF ret.tag # "Ok" THEN Answered(db, r.web3, "read_account",
                                              <<address>>, ret, 3)
               ELSE IF db.mux.dumper /\ ret.val # None
               THEN LET account == CHOOSE x \in ret.val : TRUE
                        code == web3_read_code(r.web3, account.code_hash).val
                    IN Answered(dump_address_on(db, address, account.balance,
                                                into_U256(account.nonce),
                                                code),
                                r.web3, "read_account", <<address>>, ret, 3)
               ELSE Answered(db, r.web3, "read_account", <<address>>, ret, 3)

\* read_code, lines 78-87
StateMuxer_read_code(code_hash) ==
    IF db.mux.db THEN read_code(code_hash)
    ELSE /\ Teeing
         /\ Answered(db, Web3, "read_code", <<code_hash>>,
                     web3_read_code(Web3, code_hash), 0)

\* read_storage, lines 89-110
StateMuxer_read_storage(address, incarnation, location) ==
    IF db.mux.db THEN read_storage(address, incarnation, location)
    ELSE /\ Teeing
         /\ LET ret == web3_read_storage(address, incarnation, location)
            IN Answered(IF db.mux.dumper
                        THEN dump_storage_on(db, address, location, ret.val)
                        ELSE db,
                        Web3, "read_storage",
                        <<address, incarnation, location>>, ret, 1)

\* read_block_header, lines 112-138
StateMuxer_read_block_header(block_number) ==
    IF db.mux.db THEN read_block_header(block_number)
    ELSE /\ Teeing
         /\ LET ret == web3_read_block_header(block_number)
            IN IF db.mux.dumper /\ ret.val # None
               THEN LET header == CHOOSE x \in ret.val : TRUE
                    IN Answered(dump_block_header_on(
                                    db, block_number, header.hash,
                                    or_default(header.base_fee_per_gas, U256_from(0)),
                                    header.timestamp, header.gas_limit,
                                    header.difficulty, header.beneficiary),
                                Web3, "read_block_header", <<block_number>>,
                                ret, 1)
               ELSE Answered(db, Web3, "read_block_header", <<block_number>>,
                             ret, 1)

\* the tee session is over and a StateMuxer is opened on the file in
\* LocalOnly mode
Reopen ==
    /\ ~db.mux.db
    /\ db.dumped # <<>>
    /\ db' = [db EXCEPT !.mux = StateMuxer_new("LocalOnly")]
    /\ UNCHANGED <<revision, budget, prov, ctx, bad, ibs, frames, steps, result>>

\* the addresses, code hashes and block numbers asked for
MuxAddresses == {Alice, Bob, Tgt1}

MuxHashes == {keccak256(RemoteCode(address)) : address \in {Alice, Bob}}

MuxNumbers == {StateBlock, StateBlock - 1, StateBlock - 2}

InitMuxer ==
    /\ revision = London
    /\ bad = [acct |-> {}, code |-> {}]
    /\ ibs = NewIntraBlockState
    /\ frames = <<>>
    /\ steps = 0
    /\ budget = 0
    /\ result = [tag |-> "idle", res |-> NoResult]
    /\ prov = NoProvider
    /\ ctx = NoContext
    /\ db = [field \in DOMAIN NoDatabase \cup {"mux", "sent", "session"} |->
                CASE field = "mux" -> StateMuxer_new("TeeWeb3ToLocal")
                  [] field = "sent" -> 0
                  [] field = "session" -> <<>>
                  [] OTHER -> NoDatabase[field]]

NextMuxer ==
    \/ \E address \in MuxAddresses : StateMuxer_read_account(address)
    \/ \E code_hash \in MuxHashes : StateMuxer_read_code(code_hash)
    \/ \E address \in {Bob, Tgt1}, incarnation \in Incarnations,
          location \in DumpSlots :
           StateMuxer_read_storage(address, incarnation, location)
    \/ \E block_number \in MuxNumbers :
           StateMuxer_read_block_header(block_number)
    \/ Reopen

SpecMuxer == InitMuxer /\ [][NextMuxer]_vars

(***************************************************************************)
(* The transactions that carry value: calls of Bob and creations with and  *)
(* without value, whose code calls with value, creates with an endowment   *)
(* and destroys itself in favour of another account.                       *)
(***************************************************************************)
ValueCalls ==
    {<<"Call", Bob, 1, AllGas>>, <<"Call", Tgt2, 1, AllGas>>,
     <<"CallCode", Bob, 1, AllGas>>}

NextValue ==
    \/ \E value \in {0, 1}, gas \in TxGas :
          ExecuteCall(Alice, Bob, value, gas, Input4)
    \/ \E value \in {0, 1}, gas \in TxGas : ExecuteCreate(Alice, value, gas)
    \/ ExecuteReturn
    \/ \E beneficiary \in Beneficiaries : Selfdestruct(beneficiary)
    \/ \E c \in ValueCalls : CallInterrupt(c[1], c[2], c[3], c[4])
    \/ \E c \in RevCreates : CreateInterrupt(c[1], c[2])
    \/ \E out \in UNION {Ends(fn, AllGas) : fn \in {"call", "create"}} :
          Complete(out)
    \/ ReturnToCaller

SpecValue == Init /\ [][NextValue]_vars

(***************************************************************************)
(* Properties.                                                             *)
(***************************************************************************)
\* a call or create has just returned: its frame is still the top one
Done == frames # <<>> /\ Top.pc = "done"

Failed(f) == f.res.status_code # "Success"

Snapshot(f) == CHOOSE x \in f.snapshot : TRUE

Target(f) == CHOOSE x \in f.target : TRUE

\* C1: a call that took its snapshot and ends with a status other than
\* Success leaves the overlay observably as it was at the call's entry:
\* balances, nonces, code, storage, logs, self-destruct set, access list and
\* refund counter.
C1_CallFailureRestoresEntry ==
    (Done /\ Top.fn = "call" /\ Top.snapshot # None /\ Failed(Top))
        => Obs(ibs) = Obs(Top.entry)

\* a call that moved value to another account ran code, serviced a request
\* and then reverted
C1_Witness ==
    /\ Done /\ Top.fn = "call" /\ Top.snapshot # None
    /\ Top.res.status_code = "Revert"
    /\ Top.msg.kind = "Call" /\ ~Top.msg.is_static
    /\ Top.msg.value = 1 /\ Top.msg.sender # Top.msg.recipient
    /\ steps > 0

\* C2: in every state, for the snapshot of every frame in progress,
\* revert_to_snapshot gives back the overlay as it was when the snapshot was
\* taken (journal and touched set included), whatever mutations, later
\* snapshots and reverts of nested frames happened since.
C2_RevertRestoresSnapshot ==
    \A i \in 1..Len(frames) :
        frames[i].snapshot # None
            => revert_to_snapshot(ibs, Snapshot(frames[i])) = frames[i].snap

\* a nested frame has taken its own snapshot and reverted to it, and the
\* outer frame's snapshot has mutations above it
C2_Witness ==
    /\ Len(frames) = 2 /\ Top.pc = "done"
    /\ frames[1].snapshot # None /\ Top.snapshot # None
    /\ Top.res.status_code = "Revert"
    /\ steps = MaxSteps
    /\ Obs(ibs) # Obs(frames[1].snap)

\* C3 as claimed: every result whose status is neither Success nor Revert has
\* gas_left = 0.
C3_Original ==
    /\ Done /\ Top.res.status_code \notin {"Success", "Revert"}
           => Top.res.gas_left = 0
    /\ result.tag = "ok" /\ result.res.status_code \notin {"Success", "Revert"}
           => result.res.gas_left = 0

\* C3 amended: every result of call, create or execute whose status is none
\* of Success, Revert and InsufficientBalance has gas_left = 0; a call or
\* create that fails the balance check returns InsufficientBalance with
\* gas_left = message.gas.
C3_FailureZeroesGas ==
    /\ Done /\ Top.res.status_code
                  \notin {"Success", "Revert", "InsufficientBalance"}
           => Top.res.gas_left = 0
    /\ Done /\ Top.res.status_code = "InsufficientBalance"
           => Top.res.gas_left = Top.msg.gas
    /\ result.tag = "ok" /\ result.res.status_code
                              \notin {"Success", "Revert", "InsufficientBalance"}
           => result.res.gas_left = 0

\* a precompile failed in a call that was given gas
C3_Witness ==
    /\ Done /\ Top.res.status_code = "PrecompileFailure"
    /\ Top.msg.gas > 0 /\ Top.res.gas_left = 0

C5_ErrorLeavesOverlay ==
    result.tag = "err" => Obs(ibs) = Obs(NewIntraBlockState)

\* C6: a call of a kind other than DelegateCall whose sender holds less than
\* message.value returns at once InsufficientBalance with gas_left =
\* message.gas and empty output, takes no snapshot and leaves the overlay,
\* journal included, as it was.
C6_InsufficientBalance ==
    \A i \in 1..Len(frames) :
        LET f == frames[i]
        IN (/\ f.fn = "call" /\ f.msg.kind # "DelegateCall"
            /\ get_balance(f.entry, f.msg.sender) < f.msg.value)
           => /\ f.pc = "done"
              /\ f.res = Output("InsufficientBalance", f.msg.gas, Bytes_new, None)
              /\ f.snapshot = None
              /\ ibs = f.entry

\* a CALLCODE with value issued by code whose account holds nothing
C6_Witness ==
    /\ Done /\ Top.fn = "call" /\ Top.msg.kind = "CallCode"
    /\ get_balance(Top.entry, Top.msg.sender) < Top.msg.value
    /\ Top.res.status_code = "InsufficientBalance"

\* the case of C7: a non-static Call with sufficient balance to an address
\* that is no precompile, holds no code and is not skipped by EIP-161
C7_Case(f) ==
    /\ f.fn = "call" /\ f.msg.kind = "Call" /\ ~f.msg.is_static
    /\ get_balance(f.entry, f.msg.sender) >= f.msg.value
    /\ ~is_precompiled(f.msg.code_address, revision)
    /\ ~HasCode(f.entry, f.msg.code_address)
    /\ ~(f.msg.value = 0 /\ revision >= Spurious
           /\ ~exists(f.entry, f.msg.code_address))

C7_Result(f) ==
    /\ f.pc = "done"
    /\ f.res = Output("Success", f.msg.gas, Bytes_new, None)
    /\ \A a \in Address \ {f.msg.sender, f.msg.recipient} :
           ibs.accounts[a] = f.entry.accounts[a]

\* C7 as claimed: the sender's balance is lower and the recipient's higher by
\* exactly message.value.
C7_Original ==
    \A i \in 1..Len(frames) :
        LET f == frames[i]
        IN C7_Case(f)
           => /\ C7_Result(f)
              /\ get_balance(ibs, f.msg.sender)
                     = get_balance(f.entry, f.msg.sender) - f.msg.value
              /\ get_balance(ibs, f.msg.recipient)
                     = get_balance(f.entry, f.msg.recipient) + f.msg.value

\* C7 amended: the call returns Success with gas_left = message.gas and empty
\* output and changes no other account; when sender and recipient differ the
\* sender's balance is lower and the recipient's higher by exactly
\* message.value, and when they are the same account its balance is unchanged.
C7_TransferToCodeless ==
    \A i \in 1..Len(frames) :
        LET f == frames[i]
        IN C7_Case(f)
           => /\ C7_Result(f)
              /\ f.msg.sender # f.msg.recipient
                   => /\ get_balance(ibs, f.msg.sender)
                            = get_balance(f.entry, f.msg.sender) - f.msg.value
                      /\ get_balance(ibs, f.msg.recipient)
                            = get_balance(f.entry, f.msg.recipient) + f.msg.value
              /\ f.msg.sender = f.msg.recipient
                   => get_balance(ibs, f.msg.sender)
                         = get_balance(f.entry, f.msg.sender)

\* value 1 has been moved to an account that did not exist
C7_Witness ==
    /\ Done /\ C7_Case(Top) /\ Top.msg.value = 1
    /\ Top.msg.sender # Top.msg.recipient
    /\ ~exists(Top.entry, Top.msg.recipient)
    /\ get_balance(ibs, Top.msg.recipient) = 1

\* the case of C8: on Spurious or later, value 0, target not a precompile
C8_Case(f) ==
    /\ f.fn = "call" /\ revision >= Spurious /\ f.msg.value = 0
    /\ ~is_precompiled(f.msg.code_address, revision)

\* C8 as claimed: for a dead target, non-existent or existing and empty, the
\* call is a no-op, with no touch and no journal entry.
C8_Original ==
    \A i \in 1..Len(frames) :
        LET f == frames[i]
        IN (C8_Case(f) /\ is_dead(f.entry, f.msg.code_address))
           => /\ f.pc = "done"
              /\ f.res = Output("Success", f.msg.gas, Bytes_new, None)
              /\ f.snapshot = None
              /\ ibs = f.entry

\* C8 amended: for a target that does not exist the call is a no-op: Success
\* with gas_left = message.gas and empty output, no snapshot, no touch, no
\* journal entry.  For a target that exists and is dead the call returns the
\* same result and changes no balance, nonce, code or storage slot, but it is
\* not skipped: the snapshot is taken and the touch or the zero transfer made.
C8_ZeroValueToDead ==
    \A i \in 1..Len(frames) :
        LET f == frames[i]
        IN /\ (C8_Case(f) /\ ~exists(f.entry, f.msg.code_address))
              => /\ f.pc = "done"
                 /\ f.res = Output("Success", f.msg.gas, Bytes_new, None)
                 /\ f.snapshot = None
                 /\ ibs = f.entry
           /\ (C8_Case(f) /\ is_dead(f.entry, f.msg.code_address))
              => /\ f.pc = "done"
                 /\ f.res = Output("Success", f.msg.gas, Bytes_new, None)
                 /\ \A a \in Address :
                       /\ get_balance(ibs, a) = get_balance(f.entry, a)
                       /\ get_nonce(ibs, a) = get_nonce(f.entry, a)
                       /\ get_code(ibs, a) = get_code(f.entry, a)
                       /\ ibs.storage[a] = f.entry.storage[a]

\* a nested call with value 0 to an address that does not exist, made after
\* the overlay was changed
C8_Witness ==
    /\ Done /\ C8_Case(Top) /\ ~exists(Top.entry, Top.msg.code_address)
    /\ Top.res.status_code = "Success"
    /\ Len(ibs.journal) > 0

\* on Frontier the deposit that cannot be paid is waived and no code stored
C9_Quirk(f) ==
    /\ revision < Homestead
    /\ f.iret.gas_left < G_CODE_DEPOSIT * f.iret.output_data.len

C9_Nonces(f) ==
    /\ get_nonce(ibs, f.msg.sender) = get_nonce(f.entry, f.msg.sender) + 1
    /\ get_nonce(ibs, Target(f)) = IF revision >= Spurious THEN 1 ELSE 0

C9_Endowment(f) ==
    /\ get_balance(ibs, f.msg.sender)
           = get_balance(f.entry, f.msg.sender) - f.msg.value
    /\ get_balance(ibs, Target(f))
           = get_balance(f.entry, Target(f)) + f.msg.value

\* C9 as claimed: when create returns Success, create_address is the target,
\* the sender's nonce is one higher than at entry, the target's nonce is 1 on
\* Spurious+ and 0 before, the endowment has moved, the target's code is the
\* returned bytes and gas_left is the remaining gas less 200 per byte.
C9_Original ==
    (Done /\ Top.fn = "create" /\ Top.res.status_code = "Success")
        => /\ Top.res.create_address = Top.target
           /\ C9_Nonces(Top)
           /\ C9_Endowment(Top)
           /\ get_code(ibs, Target(Top)) = Top.iret.output_data
           /\ Top.res.gas_left
                 = Top.iret.gas_left
                     - G_CODE_DEPOSIT * Top.iret.output_data.len

\* C9 amended: when create returns Success, create_address is the target;
\* except on Frontier with remaining gas below 200 per byte, the target's
\* code is the returned bytes and gas_left the remaining gas less 200 per
\* byte, and in that Frontier case gas_left is the remaining gas; when the
\* init-code issued no Call, Create or Selfdestruct, the sender's nonce is one
\* higher than at entry, the target's nonce is 1 on Spurious+ and 0 before,
\* the endowment has moved, and in the Frontier case the target has no code.
C9_CreateSuccess ==
    (Done /\ Top.fn = "create" /\ Top.res.status_code = "Success")
        => /\ Top.res.create_address = Top.target
           /\ IF C9_Quirk(Top)
              THEN Top.res.gas_left = Top.iret.gas_left
              ELSE /\ get_code(ibs, Target(Top)) = Top.iret.output_data
                   /\ Top.res.gas_left
                         = Top.iret.gas_left
                             - G_CODE_DEPOSIT * Top.iret.output_data.len
           /\ ~Top.nested
                 => /\ C9_Nonces(Top)
                    /\ C9_Endowment(Top)
                    /\ C9_Quirk(Top) => get_code(ibs, Target(Top)) = Bytes_new

\* a create with endowment 1 deployed one byte of code after servicing a
\* request of the init-code
C9_Witness ==
    /\ Done /\ Top.fn = "create" /\ Top.res.status_code = "Success"
    /\ ~Top.nested /\ Top.msg.value = 1 /\ steps > 0
    /\ get_code(ibs, Target(Top)) = Code1
    /\ Top.res.gas_left = Top.msg.gas - G_CODE_DEPOSIT

\* the overlay at the entry of create f, with the sender's nonce bumped and
\* the target warm
C10_Expected(f) ==
    [Obs(f.entry) EXCEPT
        !.accounts[f.msg.sender] = [@ EXCEPT !.exists = TRUE, !.nonce = @ + 1],
        !.accessed_addresses = @ \cup f.target]

\* C10: a create that passes the balance check and ends with a status other
\* than Success leaves the overlay as at entry but for the sender's nonce,
\* one higher, and the warm mark on the target; a create that fails the
\* balance check leaves the overlay, the sender's nonce included, unchanged.
C10_CreateFailure ==
    /\ (Done /\ Top.fn = "create" /\ Failed(Top)
              /\ get_balance(Top.entry, Top.msg.sender) >= Top.msg.value)
           => Obs(ibs) = C10_Expected(Top)
    /\ (Done /\ Top.fn = "create"
              /\ get_balance(Top.entry, Top.msg.sender) < Top.msg.value)
           => /\ Top.res.status_code = "InsufficientBalance"
              /\ Obs(ibs) = Obs(Top.entry)

\* the init-code of a create with endowment 1 changed the overlay and its
\* result was rejected
C10_Witness ==
    /\ Done /\ Top.fn = "create" /\ Top.snapshot # None
    /\ Top.res.status_code \in {"OutOfGas", "ContractValidationFailure"}
    /\ Top.iret.status_code = "Success"
    /\ Top.msg.value = 1 /\ steps > 0

\* the target of create f was taken when f was entered
C11_Taken(f) ==
    /\ f.fn = "create"
    /\ get_nonce(f.entry, Target(f)) # 0 \/ HasCode(f.entry, Target(f))

C11_Result(f) ==
    /\ f.pc = "done"
    /\ f.res = Output("InvalidInstruction", 0, Bytes_new, None)
    /\ f.snapshot = None
    /\ ibs.accounts[Target(f)] = f.entry.accounts[Target(f)]
    /\ ibs.storage[Target(f)] = f.entry.storage[Target(f)]
    /\ \A a \in Address : get_balance(ibs, a) = get_balance(f.entry, a)
    /\ \A i \in (Len(f.entry.journal) + 1)..Len(ibs.journal) :
           ibs.journal[i].tag # "create_contract"

\* C11 as claimed: every create whose target already has a nonce other than
\* 0 or code returns InvalidInstruction with gas_left 0 and no create_address,
\* takes no snapshot, does not call create_contract and moves no endowment.
C11_Original ==
    \A i \in 1..Len(frames) : C11_Taken(frames[i]) => C11_Result(frames[i])

\* C11 amended: a create whose sender holds at least the endowment and whose
\* target already has a nonce other than 0 or code returns InvalidInstruction
\* with gas_left 0 and no create_address, takes no snapshot, leaves
\* incarnation, nonce, code and storage of the target as they were and moves
\* no endowment; when the sender holds less than the endowment the balance
\* check comes first and create returns InsufficientBalance with gas_left =
\* message.gas.
C11_Collision ==
    \A i \in 1..Len(frames) :
        LET f == frames[i]
        IN C11_Taken(f)
           => IF get_balance(f.entry, f.msg.sender) >= f.msg.value
              THEN C11_Result(f)
              ELSE /\ f.pc = "done"
                   /\ f.res = Output("InsufficientBalance", f.msg.gas,
                                     Bytes_new, None)

\* a CREATE2 aimed at the address of a contract that is being created
C11_Witness ==
    /\ Done /\ C11_Taken(Top)
    /\ get_balance(Top.entry, Top.msg.sender) >= Top.msg.value
    /\ Top.res.status_code = "InvalidInstruction"
    /\ get_nonce(ibs, Top.msg.sender) = get_nonce(Top.entry, Top.msg.sender) + 1

\* create f has returned and its init-code had completed with Success
Validated(f) ==
    f.fn = "create" /\ f.pc = "done" /\ f.iret.status_code = "Success"

StartsWithEF(f) ==
    f.iret.output_data.len > 0 /\ f.iret.output_data.first = 239

TooLong(f) == f.iret.output_data.len > MAX_CODE_SIZE

Deposit(f) == G_CODE_DEPOSIT * f.iret.output_data.len

\* create f failed with this status: no gas, no address, no code at the
\* target, and the overlay back at the snapshot of f
Rejected(f, status) ==
    /\ f.res.status_code = status
    /\ f.res.gas_left = 0
    /\ f.res.create_address = None
    /\ get_code(ibs, Target(f)) = Bytes_new
    /\ ibs = f.snap

\* C12: on London or later, init-code that succeeds and returns non-empty
\* code whose first byte is 0xEF makes create return
\* ContractValidationFailure with gas_left 0, no code at the target and the
\* overlay back at the create's snapshot, whatever the length of the code and
\* the gas left for the deposit; before London no create ends with
\* ContractValidationFailure.
C12_RejectEF ==
    /\ (Done /\ Validated(Top) /\ StartsWithEF(Top) /\ revision >= London)
           => Rejected(Top, "ContractValidationFailure")
    /\ (Done /\ Top.fn = "create" /\ revision < London)
           => Top.res.status_code # "ContractValidationFailure"
    /\ (Done /\ Validated(Top) /\ StartsWithEF(Top) /\ revision < London
              /\ ~(TooLong(Top) /\ revision >= Spurious)
              /\ Top.iret.gas_left >= Deposit(Top))
           => /\ Top.res.status_code = "Success"
              /\ get_code(ibs, Target(Top)) = Top.iret.output_data

\* on London, code that begins with 0xEF, is too long and cannot pay its
\* deposit was returned by a create with endowment 1
C12_Witness ==
    /\ Done /\ Validated(Top) /\ revision = London
    /\ Top.iret.output_data = CodeBigEF
    /\ Top.iret.gas_left < Deposit(Top)
    /\ Top.msg.value = 1
    /\ Top.res.status_code = "ContractValidationFailure"

\* C13 as claimed: on Spurious or later every returned code longer than
\* 24576 bytes makes create return OutOfGas.
C13_Original ==
    (Done /\ Validated(Top) /\ TooLong(Top) /\ revision >= Spurious)
        => Rejected(Top, "OutOfGas")

\* C13 amended: on Spurious or later, returned code longer than 24576 bytes
\* makes create fail with gas_left 0, no code at the target and the overlay
\* back at the create's snapshot; the status is OutOfGas, except on London or
\* later for code that begins with 0xEF, where the 0xEF rule comes first and
\* the status is ContractValidationFailure.  Code of exactly 24576 bytes and,
\* before Spurious, code of any length is deployed when the deposit is paid.
C13_CodeSize ==
    /\ (Done /\ Validated(Top) /\ TooLong(Top) /\ revision >= Spurious)
           => Rejected(Top, IF revision >= London /\ StartsWithEF(Top)
                            THEN "ContractValidationFailure" ELSE "OutOfGas")
    /\ (Done /\ Validated(Top) /\ ~StartsWithEF(Top)
              /\ (~TooLong(Top) \/ revision < Spurious)
              /\ Top.iret.gas_left >= Deposit(Top))
           => /\ Top.res.status_code = "Success"
              /\ get_code(ibs, Target(Top)) = Top.iret.output_data

\* code of 24577 bytes was rejected although its deposit could be paid
C13_Witness ==
    /\ Done /\ Validated(Top) /\ revision = Spurious
    /\ Top.iret.output_data = CodeBig
    /\ Top.iret.gas_left >= Deposit(Top)
    /\ Top.res.status_code = "OutOfGas"

\* the returned code passes the 0xEF rule and the size limit
C14_Valid(f) ==
    /\ Validated(f)
    /\ ~(revision >= London /\ StartsWithEF(f))
    /\ ~(revision >= Spurious /\ TooLong(f))

\* no other create has written the target of f since f's snapshot (address
\* derivation is injective)
C14_OneIncarnation(f) ==
    ibs.accounts[Target(f)].incarnation
        = f.snap.accounts[Target(f)].incarnation + 1

\* C14: when valid code is returned with less gas than 200 per byte, create
\* returns OutOfGas with gas_left 0 and the snapshot reverted on Homestead or
\* later, and on Frontier returns Success with create_address set, the gas
\* unchanged and no code at the target; when the gas suffices exactly 200
\* per byte is deducted and the code stored; gas_left is never negative.
C14_DepositGas ==
    /\ (Done /\ C14_Valid(Top) /\ Top.iret.gas_left < Deposit(Top))
           => IF revision >= Homestead
              THEN Rejected(Top, "OutOfGas")
              ELSE /\ Top.res.status_code = "Success"
                   /\ Top.res.create_address = Top.target
                   /\ Top.res.gas_left = Top.iret.gas_left
                   /\ C14_OneIncarnation(Top)
                         => get_code(ibs, Target(Top)) = Bytes_new
    /\ (Done /\ C14_Valid(Top) /\ Top.iret.gas_left >= Deposit(Top))
           => /\ Top.res.status_code = "Success"
              /\ Top.res.gas_left = Top.iret.gas_left - Deposit(Top)
              /\ get_code(ibs, Target(Top)) = Top.iret.output_data
    /\ Done => Top.res.gas_left >= 0
    /\ result.tag = "ok" => result.res.gas_left >= 0

\* on Homestead one byte of code was returned with 199 gas left
C14_Witness ==
    /\ Done /\ C14_Valid(Top) /\ revision = Homestead
    /\ Top.iret.output_data = Code1
    /\ Top.iret.gas_left < Deposit(Top)
    /\ Top.res.status_code = "OutOfGas"

\* frame f is a call to a precompile that is active under the revision
C15_Case(f) ==
    f.fn = "call" /\ is_precompiled(f.msg.code_address, revision)

C15_Cost(f) == ContractGas(f.msg.code_address, f.msg.input_data, revision)

\* no cost, a cost of 2^63 or more, or a cost above message.gas
C15_Refused(f) ==
    \/ C15_Cost(f) = None
    \/ LET gas == CHOOSE g \in C15_Cost(f) : TRUE
       IN gas[1] >= 2 \/ gas[1] > 0 \/ gas[2] > 0 \/ gas[3] > f.msg.gas

C15_Result(f) ==
    /\ f.pc = "done"
    /\ IF C15_Refused(f)
       THEN /\ f.res = Output("OutOfGas", 0, Bytes_new, None)
            /\ ~PrecompileRuns(f.msg, revision)
            /\ Obs(ibs) = Obs(f.entry)
       ELSE LET gas == (CHOOSE g \in C15_Cost(f) : TRUE)[3]
                out == ContractRun(f.msg.code_address, f.msg.input_data)
            IN /\ PrecompileRuns(f.msg, revision)
               /\ out # None
                    => f.res = Output("Success", f.msg.gas - gas,
                                      CHOOSE o \in out : TRUE, None)
    /\ (/\ f.msg.code_address = IdentityAddr /\ f.msg.input_data = Input4
        /\ f.msg.gas = LittleGas)
          => f.res = Output("Success", 82, Input4, None)

\* C15 as claimed: every call to an active precompile returns OutOfGas with
\* gas_left 0 without invoking run when the cost is None, does not fit i64
\* or exceeds message.gas, and Success with gas_left = message.gas - cost and
\* the output of run when run returns one.
C15_Original ==
    \A i \in 1..Len(frames) : C15_Case(frames[i]) => C15_Result(frames[i])

\* C15 amended: the same for every call to an active precompile that passes
\* the sender-balance check (kind DelegateCall, or sender balance at least
\* message.value); a call that fails the balance check returns
\* InsufficientBalance with gas_left = message.gas before the precompile
\* is looked at.
C15_Precompile ==
    \A i \in 1..Len(frames) :
        LET f == frames[i]
        IN C15_Case(f)
           => IF BalanceCheckFails(f.entry, f.msg)
              THEN /\ f.pc = "done"
                   /\ f.res = Output("InsufficientBalance", f.msg.gas,
                                     Bytes_new, None)
              ELSE C15_Result(f)

\* the cost of a modular exponentiation did not fit the signed gas type
C15_Witness ==
    /\ Done /\ C15_Case(Top) /\ ~BalanceCheckFails(Top.entry, Top.msg)
    /\ Top.msg.code_address = ExpmodAddr /\ Top.msg.input_data = ExpWide
    /\ Top.msg.value = 1
    /\ Top.res.status_code = "OutOfGas"

\* the active precompile count as the claim gives it
C16_Count(rev) ==
    CASE rev \in {Frontier, Homestead, Tangerine, Spurious} -> 4
      [] rev \in {Byzantium, Constantinople, Petersburg} -> 8
      [] rev \in {Istanbul, Berlin, London, Shanghai} -> 9

\* the revision that introduced entry index of CONTRACTS
C16_ActiveFrom(index) ==
    IF index < 4 THEN Frontier ELSE IF index < 8 THEN Byzantium ELSE Istanbul

\* the addresses around the table, and those whose last byte is in the table
\* under a second byte of 01
C16_Addresses ==
    (0..(NUM_OF_ISTANBUL_CONTRACTS + 2))
        \cup (256..(256 + NUM_OF_ISTANBUL_CONTRACTS))

\* C16: is_precompiled(addr) is true exactly when addr is not zero, every
\* byte but the last is zero and the last byte is at most the active count
\* (4 up to Spurious, 8 up to Petersburg, 9 from Istanbul); so the table
\* index of a call that takes the precompile branch lies in 0..count-1 and
\* names an entry that is active under the revision.
C16_IsPrecompiled ==
    /\ \A a \in C16_Addresses :
          is_precompiled(a, revision)
             <=> (a # 0 /\ a \div 256 = 0 /\ a % 256 <= C16_Count(revision))
    /\ \A i \in 1..Len(frames) :
          LET f == frames[i]
              index == f.msg.code_address - 1
          IN (f.fn = "call" /\ is_precompiled(f.msg.code_address, revision))
             => /\ index \in 0..(C16_Count(revision) - 1)
                /\ index < NUM_OF_ISTANBUL_CONTRACTS
                /\ C16_ActiveFrom(index) <= revision

\* the last entry of the table was called under the first revision that
\* has it
C16_Witness ==
    /\ Done /\ Top.fn = "call" /\ revision = Istanbul
    /\ Top.msg.code_address = Blake2Addr
    /\ is_precompiled(Top.msg.code_address, revision)
    /\ Top.res.status_code = "OutOfGas"

(***************************************************************************)
(* C17.  The credit the storage-write rule gives for clearing a slot,      *)
(* which is what it takes back when the slot is filled again.              *)
(***************************************************************************)
C17_ClearsRefund(rev) ==
    IF rev >= London
    THEN (G_SRESET - COLD_SLOAD_COST) + ACCESS_LIST_STORAGE_KEY_COST
    ELSE R_SCLEAR

\* the slots that were not zero when the transaction started and are zero now
C17_Cleared(s) ==
    {p \in Address \X Keys : /\ get_original_storage(s, p[1], p[2]) # 0
                             /\ get_current_storage(s, p[1], p[2]) = 0}

\* the journal entry i records a decrease of the refund counter
C17_Subtracted(s, i) ==
    /\ s.journal[i].tag = "refund"
    /\ LET later == {j \in (i + 1)..Len(s.journal) :
                        s.journal[j].tag = "refund"}
           after == IF later = {} THEN s.refund
                    ELSE s.journal[CHOOSE j \in later :
                                       \A l \in later : j <= l].num
       IN after < s.journal[i].num

\* C17: the refund counter is never below zero, and under the net-metering
\* revisions it holds at every moment the credit of each slot that is
\* cleared at that moment, which is the amount the storage-write rule
\* subtracts when such a slot is written again.
C17_RefundNeverNegative ==
    /\ ibs.refund >= 0
    /\ (revision >= Istanbul \/ revision = Constantinople)
          => ibs.refund
               >= Cardinality(C17_Cleared(ibs)) * C17_ClearsRefund(revision)

\* the code cleared the slot, a nested call filled it and was reverted, and
\* the code then filled it itself: the credit is subtracted and nothing of
\* the refund is left
C17_Witness ==
    /\ Running /\ Top.nested /\ steps = StoreSteps
    /\ \E i \in 1..Len(ibs.journal) : C17_Subtracted(ibs, i)
    /\ ibs.refund = 0

(***************************************************************************)
(* C18.  The refund of a finished transaction.                             *)
(***************************************************************************)
C18_Quotient(rev) == IF rev >= London THEN 5 ELSE 2

\* the transaction succeeded with gas_left left of gas, having spent at least
\* the price of a first write for each request its code made
C18_Finished(gas) ==
    /\ result.tag = "ok" /\ result.res.status_code = "Success"
    /\ gas - result.res.gas_left >= steps * G_SRESET

C19_Promotions(s, tag) ==
    {i \in 1..Len(s.journal) : s.journal[i].tag = tag}

C19_Accounts(s) ==
    {s.journal[i].addr : i \in C19_Promotions(s, "access_account")}

C19_Slots(s) ==
    {<<s.journal[i].addr, s.journal[i].key>> :
        i \in C19_Promotions(s, "access_storage")}

\* the journal of t is the journal of s cut before entry i
C19_RevertedBefore(s, t, i) ==
    /\ Len(t.journal) < i
    /\ t.journal = SubSeq(s.journal, 1, Len(t.journal))

\* an access would return Warm exactly for what a promotion still in the
\* journal promoted
C19_WarmIsPromoted ==
    /\ \A a \in Address :
          ~is_precompiled(a, revision)
             => (AccessAccountReturn(ibs, a, revision) = "Warm"
                    <=> a \in C19_Accounts(ibs))
    /\ \A a \in Address, k \in Keys :
          StorageStatusOf(ibs, a, k) = "Warm" <=> <<a, k>> \in C19_Slots(ibs)

\* what is Warm turns Cold only by a revert to a snapshot taken before its
\* promotion, and then it does; what is Cold turns Warm only by a promotion
\* appended to the journal
C19_ColdOnlyByRevert ==
    /\ \A i \in C19_Promotions(ibs, "access_account") :
          LET a == ibs.journal[i].addr
          IN AccessAccountReturn(ibs', a, revision) = "Cold"
                <=> C19_RevertedBefore(ibs, ibs', i)
    /\ \A i \in C19_Promotions(ibs, "access_storage") :
          LET a == ibs.journal[i].addr
              k == ibs.journal[i].key
          IN StorageStatusOf(ibs', a, k) = "Cold"
                <=> C19_RevertedBefore(ibs, ibs', i)
    /\ \A a \in C19_Accounts(ibs') \ C19_Accounts(ibs) :
          /\ AccessAccountReturn(ibs, a, revision) = "Cold"
          /\ ibs'.journal[Len(ibs'.journal)].tag = "access_account"
          /\ ibs'.journal[Len(ibs'.journal)].addr = a

\* C19: within a transaction an address or an (address, slot) pair that an
\* access promoted is Warm for every later access until a revert goes back
\* to a snapshot taken before the promotion; from then on it is Cold, and
\* the next access promotes it anew.
C19_WarmUntilReverted ==
    []C19_WarmIsPromoted /\ [][C19_ColdOnlyByRevert]_vars

\* the code called Bob before any access; the called code made two accesses,
\* each of which promotes when it returns Cold, made no call, and failed:
\* nothing is Warm
C19_Witness ==
    /\ Len(frames) = 2 /\ Done /\ Failed(Top) /\ ~Top.nested
    /\ steps = 1 + 2
    /\ Top.entry.accessed_addresses = {}
    /\ Top.entry.accessed_storage_keys = {}
    /\ ibs.accessed_addresses = {}
    /\ ibs.accessed_storage_keys = {}

(***************************************************************************)
(* C20.  Logs and self-destruct marks across the end of a frame.           *)
(***************************************************************************)
\* overlay t holds the logs of s, in their order and first, and its marks
C20_Kept(s, t) ==
    /\ Len(s.logs) <= Len(t.logs)
    /\ SubSeq(t.logs, 1, Len(s.logs)) = s.logs
    /\ s.self_destructs \subseteq t.self_destructs

\* the step ends a frame: call or create returns in it
C20_Ends ==
    /\ frames' # <<>>
    /\ frames'[Len(frames')].pc = "done"
    /\ ~(Len(frames) >= Len(frames') /\ Top.pc = "done")

\* the overlay at the snapshot of frame f, or as f found it when f returned
\* before taking one
C20_Base(f) == IF f.snapshot # None THEN f.snap ELSE f.entry

C20_Step ==
    LET f == frames'[Len(frames')]
    IN IF ~C20_Ends THEN C20_Kept(ibs, ibs')
       ELSE IF Failed(f)
       THEN /\ ibs'.logs = C20_Base(f).logs
            /\ ibs'.self_destructs = C20_Base(f).self_destructs
            /\ C20_Kept(ibs', ibs)
       ELSE /\ ibs'.logs = ibs.logs
            /\ ibs'.self_destructs = ibs.self_destructs

\* C20: a step that does not end a frame keeps every log, in order, and
\* every self-destruct mark; the end of a frame with Success keeps them all,
\* those of the frames it enclosed included; the end of a frame with any
\* other status leaves exactly the logs and marks the overlay held at that
\* frame's snapshot, so that everything emitted or marked since, by it or by
\* a frame it enclosed, is removed and everything earlier is kept.
C20_LogsFollowFrames == [][C20_Step]_vars

\* the code emitted a log and called or created; the new frame's one
\* request was a log as well, and it failed: the first log alone is left
C20_Witness ==
    /\ Len(frames) = 2 /\ Done /\ Failed(Top) /\ ~Top.nested
    /\ steps = 1 + 2
    /\ Len(Top.entry.logs) = 1 /\ Top.entry.self_destructs = {}
    /\ ibs.logs = Top.entry.logs

(***************************************************************************)
(* C21.  The incarnation barrier.                                          *)
(***************************************************************************)
\* the last create_contract(a) in the journal of s, 0 when there is none
C21_Created(s, a) ==
    LET at == {i \in 1..Len(s.journal) :
                  s.journal[i].tag = "create_contract" /\ s.journal[i].addr = a}
    IN IF at = {} THEN 0 ELSE CHOOSE i \in at : \A j \in at : j <= i

\* slot k of a was written after entry i of the journal of s
C21_WrittenSince(s, a, k, i) ==
    \E j \in (i + 1)..Len(s.journal) :
        /\ s.journal[j].tag = "storage"
        /\ s.journal[j].addr = a /\ s.journal[j].key = k

\* the step enters a create that has set up its target
C21_SetsUp ==
    /\ Len(frames') = Len(frames) + 1
    /\ frames'[Len(frames')].fn = "create"
    /\ frames'[Len(frames')].pc = "run"

C21_State ==
    \A a \in Address :
        /\ ibs.accounts[a].incarnation
              >= NewIntraBlockState.accounts[a].incarnation
        /\ C21_Created(ibs, a) > 0
              => \A k \in Keys :
                    /\ get_original_storage(ibs, a, k) = 0
                    /\ get_current_storage(ibs, a, k) # 0
                          => C21_WrittenSince(ibs, a, k, C21_Created(ibs, a))

C21_Step ==
    C21_SetsUp
      => LET a == Target(frames'[Len(frames')])
         IN /\ \A k \in Keys : /\ get_current_storage(ibs', a, k) = 0
                                /\ get_original_storage(ibs', a, k) = 0
            /\ ibs'.accounts[a].incarnation = ibs.accounts[a].incarnation + 1

\* C21: when create has set up its target a, every slot of a reads zero and
\* its incarnation is one higher, whatever the slots held before; a slot of
\* an account created in the transaction is other than zero only by a write
\* journalled after its last create_contract; and no account's incarnation
\* is below its initial one.
C21_IncarnationBarrier == []C21_State /\ [][C21_Step]_vars

\* a create has set up Tgt1, whose slot held 1 when the create was entered,
\* written by the init-code of an earlier create at the same address
C21_Witness ==
    /\ Running /\ Top.fn = "create" /\ Target(Top) = Tgt1
    /\ \E k \in Keys : /\ get_current_storage(Top.entry, Tgt1, k) # 0
                        /\ get_current_storage(ibs, Tgt1, k) = 0
    /\ ibs.accounts[Tgt1].incarnation = 2

(***************************************************************************)
(* C22.  The operations of a provider are serial.                          *)
(***************************************************************************)
\* operation p is between its first and its last overlay access
C22_Inside(p) == prov.pc[p] \in {"locked", "read", "wrote"}

\* the orders in which the operations may have run one after another
C22_Orders == {o \in [Ops -> Ops] : \A p, q \in Ops : p # q => o[p] # o[q]}

\* the transactions run before operation p under order o
C22_Before(o, p) ==
    Cardinality({q \in Ops : Executes(prov.kind[q]) /\ o[q] < o[p]})

\* what every operation read and what the overlay holds is what running
\* the operations one after another in order o gives
C22_AsIfSerial(o) ==
    /\ \A p \in Ops :
          prov.seen[p]
            = CASE prov.kind[p] = "get_balance" ->
                      get_balance(NewIntraBlockState, Alice)
                [] prov.kind[p] = "get_storage_at" ->
                      get_current_storage(NewIntraBlockState, Bob, 1)
                [] OTHER ->
                      get_nonce(NewIntraBlockState, Alice) + C22_Before(o, p)
    /\ get_nonce(ibs, Alice)
          = get_nonce(NewIntraBlockState, Alice)
              + Cardinality({q \in Ops : Executes(prov.kind[q])})

C22_AllDone == \A p \in Ops : prov.pc[p] = "done"

C22_Exclusive ==
    /\ \A p, q \in Ops : C22_Inside(p) /\ C22_Inside(q) => p = q
    /\ \A p \in Ops : C22_Inside(p) <=> prov.lock = p
    /\ C22_AllDone => \E o \in C22_Orders : C22_AsIfSerial(o)

\* C22: at most one operation is between its first and its last overlay
\* access, and it is the holder of the mutex; when all have returned, what
\* they read and what the overlay holds equals the outcome of running them
\* one after another in some order; and every operation that was issued
\* returns.
C22_Serial ==
    /\ []C22_Exclusive
    /\ \A p \in Ops : prov.pc[p] = "start" ~> prov.pc[p] = "done"

\* two transactions were issued together and both have returned: one read
\* the nonce the other had written
C22_Witness ==
    /\ C22_AllDone
    /\ \A p \in Ops : Executes(prov.kind[p])
    /\ \E p, q \in Ops : prov.seen[q] = prov.seen[p] + 1

\* the fee fields GetTxContext worked from
C23_BaseFee == unwrap_or_default(ctx.base_fee_per_gas)

C23_MaxFee == unwrap_or_default(ctx.max_fee_per_gas)

C23_Priority == unwrap_or_default(ctx.max_priority_fee_per_gas)

C23_Price == unwrap_or_default(ctx.tx_gas_price)

C23_Panicked == result.tag = "panic"

C23_Asked == ctx.tx_gas_price # None \/ C23_Panicked

\* C23: the effective gas price is the transaction's gas price, 0 when
\* absent, for Legacy and EIP-2930 transactions; for an EIP-1559 transaction
\* with a max fee it is the base fee plus the smaller of the priority fee
\* (0 when absent) and max fee - base fee, lies between the base fee and the
\* max fee and is computed without underflow, a max fee below the base fee
\* being rejected by the assertion; for an EIP-1559 transaction without a
\* max fee it is 0
C23_EffectiveGasPrice ==
    C23_Asked =>
        CASE ctx.type \in {"Legacy", "Eip2930"} ->
                 /\ ~C23_Panicked
                 /\ C23_Price = (IF ctx.gas_price = None THEN 0
                                 ELSE CHOOSE g \in ctx.gas_price : TRUE)
          [] ctx.type = "Eip1559" /\ ctx.max_fee_per_gas = None ->
                 ~C23_Panicked /\ C23_Price = 0
          [] OTHER ->
                 /\ C23_Panicked <=> C23_MaxFee < C23_BaseFee
                 /\ ~C23_Panicked =>
                      /\ C23_MaxFee - C23_BaseFee >= 0
                      /\ C23_Price = C23_BaseFee
                             + (IF C23_Priority <= C23_MaxFee - C23_BaseFee
                                THEN C23_Priority
                                ELSE C23_MaxFee - C23_BaseFee)
                      /\ C23_BaseFee <= C23_Price
                      /\ C23_Price <= C23_MaxFee

\* an EIP-1559 price whose priority fee was capped by max fee - base fee
C23_Witness ==
    /\ ctx.tx_gas_price # None
    /\ ctx.type = "Eip1559"
    /\ ctx.max_fee_per_gas # None
    /\ C23_BaseFee > 0
    /\ C23_MaxFee > C23_BaseFee
    /\ C23_Priority > C23_MaxFee - C23_BaseFee

\* the read answered last and the dumps made before it
C24_Got == CHOOSE g \in db.got : TRUE

C24_Dumped == {db.dumped[i] : i \in 1..Len(db.dumped)}

\* the dump wrote under the key the read asked for
C24_SameKey(d, g) ==
    CASE g.op = "read_account" ->
             d.op = "dump_address" /\ d.address = g.args[1]
      [] g.op = "read_code" ->
             d.op = "dump_address" /\ keccak256(d.code) = g.args[1]
      [] g.op = "read_storage" ->
             d.op = "dump_storage" /\ d.address = g.args[1] /\ d.key = g.args[3]
      [] OTHER ->
             d.op = "dump_block_header" /\ d.block_number = g.args[1]

C24_Widen(n) == [i \in 1..U256Limbs |-> IF i <= Len(n) THEN n[i] ELSE 0]

C24_Value(g) == CHOOSE v \in g.res.val : TRUE

\* the read returned what the dump was given
C24_ReadsBack(d, g) ==
    /\ g.res.tag = "Ok"
    /\ CASE g.op = "read_account" ->
                /\ C24_Value(g).balance = d.balance
                /\ C24_Widen(C24_Value(g).nonce) = d.nonce
                /\ C24_Value(g).code_hash = keccak256(d.code)
         [] g.op = "read_code" -> g.res.val = d.code
         [] g.op = "read_storage" -> g.res.val = d.value
         [] OTHER ->
                /\ C24_Value(g).number = d.block_number
                /\ C24_Value(g).hash = d.hash
                /\ C24_Value(g).base_fee_per_gas = Some(d.base_fee_per_gas)
                /\ C24_Value(g).timestamp = d.timestamp
                /\ C24_Value(g).gas_limit = d.gas_limit
                /\ C24_Value(g).difficulty = d.difficulty
                /\ C24_Value(g).beneficiary = address_bytes(d.beneficiary)

\* no other dump wrote other values under the key, and the nonce is a u64
C24_Sole(d, g) ==
    /\ \A e \in C24_Dumped : C24_SameKey(e, g) => e = d
    /\ g.op = "read_account" => as_u64(d.nonce).tag = "Ok"

\* the statement as written: every dump is read back
C24_Original ==
    db.got # None =>
        \A d \in C24_Dumped : C24_SameKey(d, C24_Got) => C24_ReadsBack(d, C24_Got)

\* C24: what SqliteDumper wrote under a key once is read back unchanged by
\* SqliteBackend, a nonce being read back when it is a u64: read_account
\* returns the balance, the nonce and keccak256 of the code, read_code that
\* code (however often it was dumped), read_storage under any incarnation
\* the value, read_block_header a header of those values; a key dumped
\* several times is read as one of its dumps
C24_RoundTrip ==
    db.got # None =>
        /\ \A d \in C24_Dumped :
               C24_SameKey(d, C24_Got) /\ (C24_Sole(d, C24_Got) \/ C24_Got.op = "read_code")
                   => C24_ReadsBack(d, C24_Got)
        /\ C24_Got.op \in {"read_storage", "read_block_header"}
           /\ (\E d \in C24_Dumped : C24_SameKey(d, C24_Got))
               => \E d \in C24_Dumped :
                      C24_SameKey(d, C24_Got) /\ C24_ReadsBack(d, C24_Got)
        /\ C24_Got.op = "read_account" /\ C24_Got.res.tag = "Ok"
               => /\ \E d \in C24_Dumped :
                         C24_SameKey(d, C24_Got) /\ C24_Value(C24_Got).balance = d.balance
                  /\ \E d \in C24_Dumped :
                         /\ C24_SameKey(d, C24_Got)
                         /\ C24_Widen(C24_Value(C24_Got).nonce) = d.nonce
                  /\ \E d \in C24_Dumped :
                         /\ C24_SameKey(d, C24_Got)
                         /\ C24_Value(C24_Got).code_hash = keccak256(d.code)

\* an account dumped once, with a balance of several digits and some code,
\* was read back
C24_Witness ==
    /\ db.got # None
    /\ C24_Got.op = "read_account"
    /\ \E d \in C24_Dumped :
           /\ C24_SameKey(d, C24_Got)
           /\ C24_Sole(d, C24_Got)
           /\ d.balance = U256_from(1234)
           /\ d.code # <<>>
           /\ C24_ReadsBack(d, C24_Got)
    /\ \E e \in C24_Dumped : e.op = "dump_storage"

\* a nonce of 2^64 was dumped once and read_account panicked on it
C24_NonceOverflow ==
    /\ db.got # None
    /\ C24_Got.op = "read_account"
    /\ C24_Got.res.tag = "panic"
    /\ Len(db.dumped) = 1

\* a slot dumped twice was read as the first of the two values
C24_FirstOfTwo ==
    /\ db.got # None
    /\ C24_Got.op = "read_storage"
    /\ Len(db.dumped) = 2
    /\ C24_SameKey(db.dumped[1], C24_Got)
    /\ C24_SameKey(db.dumped[2], C24_Got)
    /\ db.dumped[1].value # db.dumped[2].value
    /\ C24_ReadsBack(db.dumped[1], C24_Got)

(***************************************************************************)
(* C25, C26, C27.  The storage-write rule, applied to every write the      *)
(* running code can ask for.                                               *)
(***************************************************************************)
\* the frame that runs may write its slots
C25_Writing == Running /\ ~Top.msg.is_static /\ ~ibs.err

C25_Address == Top.msg.recipient

C25_Original(key) == get_original_storage(ibs, C25_Address, key)

C25_Current(key) == get_current_storage(ibs, C25_Address, key)

\* what the interpreter is resumed with and what the write leaves
C25_Write(key, new_val) ==
    SetStorageStep(ibs, C25_Address, key, new_val, revision)

C25_Credit(key, new_val) == C25_Write(key, new_val).ibs.refund - ibs.refund

C25_Stored(key, new_val) ==
    get_current_storage(C25_Write(key, new_val).ibs, C25_Address, key)

C25_ResetGas == IF revision >= Berlin THEN 5000 - 2100 ELSE 5000

C25_ClearsRefund == IF revision >= London THEN C25_ResetGas + 1900 ELSE 15000

C25_SloadCost ==
    IF revision >= Berlin THEN 100 ELSE IF revision >= Istanbul THEN 800 ELSE 200

C25_NetMetered == revision = Constantinople \/ revision >= Istanbul

\* C25: on Constantinople and from Istanbul a write is Unchanged, with
\* storage and refund untouched, when the new value is the current one;
\* Added when original = current = 0; Modified when original = current # 0,
\* crediting the clear refund when the new value is 0; ModifiedAgain when
\* original # current, with the refund adjustments of EIP-2200; the reset
\* price is G_SRESET, less COLD_SLOAD_COST from Berlin, and the clear refund
\* is R_SCLEAR before London and the reset price plus
\* ACCESS_LIST_STORAGE_KEY_COST from London
C25_NetMetering ==
    C25_Writing /\ C25_NetMetered =>
      \A key \in Keys, new_val \in StoreVals :
        LET original == C25_Original(key)
            current == C25_Current(key)
            w == C25_Write(key, new_val)
        IN IF new_val = current
           THEN w.status = "Unchanged" /\ w.ibs = ibs
           ELSE /\ C25_Stored(key, new_val) = new_val
                /\ IF original = current
                   THEN IF original = 0
                        THEN w.status = "Added" /\ C25_Credit(key, new_val) = 0
                        ELSE /\ w.status = "Modified"
                             /\ C25_Credit(key, new_val)
                                  = IF new_val = 0 THEN C25_ClearsRefund ELSE 0
                   ELSE /\ w.status = "ModifiedAgain"
                        /\ C25_Credit(key, new_val)
                             = (IF original # 0 /\ current = 0
                                THEN 0 - C25_ClearsRefund ELSE 0)
                               + (IF original # 0 /\ new_val = 0
                                  THEN C25_ClearsRefund ELSE 0)
                               + (IF original # new_val THEN 0
                                  ELSE IF original = 0
                                  THEN 20000 - C25_SloadCost
                                  ELSE C25_ResetGas - C25_SloadCost)

\* under London a slot that held 1 at the start of the transaction was
\* cleared and filled with 1 again: the clear refund was credited, taken
\* back and the refund of a reset credited
C25_Witness ==
    /\ C25_Writing /\ revision = London /\ steps = 2
    /\ \E key \in Keys :
           /\ C25_Original(key) = 1 /\ C25_Current(key) = 1
           /\ ibs.refund = 2800
           /\ C25_Write(key, 0).status = "Modified"

\* C26: on the revisions without net metering, Frontier to Byzantium and
\* Petersburg, a write is Unchanged when the new value is the current one,
\* else Added when the current value was zero, Deleted with R_SCLEAR
\* credited when the new value is zero, Modified otherwise; the original
\* value plays no role and the refund counter is never decreased
C26_Legacy ==
    C25_Writing /\ (revision <= Byzantium \/ revision = Petersburg) =>
      \A key \in Keys, new_val \in StoreVals :
        LET current == C25_Current(key)
            w == C25_Write(key, new_val)
        IN /\ C25_Credit(key, new_val) >= 0
           /\ IF new_val = current
              THEN w.status = "Unchanged" /\ w.ibs = ibs
              ELSE /\ C25_Stored(key, new_val) = new_val
                   /\ IF current = 0
                      THEN w.status = "Added" /\ C25_Credit(key, new_val) = 0
                      ELSE IF new_val = 0
                      THEN /\ w.status = "Deleted"
                           /\ C25_Credit(key, new_val) = 15000
                      ELSE /\ w.status = "Modified"
                           /\ C25_Credit(key, new_val) = 0

\* under Petersburg a slot was changed and then cleared
C26_Witness ==
    /\ C25_Writing /\ revision = Petersburg /\ steps = 2
    /\ \E key \in Keys :
           /\ C25_Original(key) = 1 /\ C25_Current(key) = 0
           /\ ibs.refund = 15000
           /\ C25_Write(key, 2).status = "Added"

\* a slot that was zero when the transaction started holds a value the
\* transaction wrote
C27_Refilled(key) == C25_Original(key) = 0 /\ C25_Current(key) # 0

C27_Empty(key) == C25_Original(key) = 0 /\ C25_Current(key) = 0

\* the statement as written: the write of 0 credits the clear refund
C27_Original ==
    C25_Writing /\ C25_NetMetered =>
      \A key \in Keys :
        C27_Refilled(key) =>
          /\ C25_Write(key, 0).status \in {"Modified", "ModifiedAgain"}
          /\ C25_Credit(key, 0) = C25_ClearsRefund

\* C27: under net metering the write of a value X # 0 to a slot with
\* original = current = 0 returns Added, and the write of 0 that follows
\* it in the same transaction returns ModifiedAgain and credits the refund
\* counter with G_SSET less the price of a read (200 on Constantinople, 800
\* on Istanbul, 100 from Berlin); the clear refund is not credited
C27_AddedThenCleared ==
    C25_Writing /\ C25_NetMetered =>
      \A key \in Keys :
        /\ C27_Empty(key) =>
             \A new_val \in StoreVals \ {0} :
                 C25_Write(key, new_val).status = "Added"
        /\ C27_Refilled(key) =>
             /\ C25_Write(key, 0).status = "ModifiedAgain"
             /\ C25_Credit(key, 0) = 20000 - C25_SloadCost

\* the code of a contract being created filled a slot and cleared it
C27_Witness ==
    /\ C25_Writing /\ revision = London /\ Top.fn = "create" /\ steps = 2
    /\ \E key \in Keys :
           /\ C27_Empty(key)
           /\ ibs.refund = 19900
           /\ ibs.refund # C25_ClearsRefund

(***************************************************************************)
(* C28.  The access status of the addresses at the start of a transaction. *)
(***************************************************************************)
\* the code of the transaction runs and has made no request yet
C28_Start == Running /\ Len(frames) = 1 /\ steps = 0 /\ ~ibs.err

\* what the first AccessAccount request of the transaction is answered
C28_First(address) == AccessAccountReturn(ibs, address, revision)

C28_Active(address) ==
    address >= 1 /\ address <= (IF revision >= Istanbul
                                THEN NUM_OF_ISTANBUL_CONTRACTS
                                ELSE IF revision >= Byzantium
                                THEN NUM_OF_BYZANTIUM_CONTRACTS
                                ELSE NUM_OF_FRONTIER_CONTRACTS)

C28_CreatedWarm ==
    /\ C28_Start /\ Top.fn = "create" /\ revision = London
    /\ C28_First(Top.msg.recipient) = "Warm"
    /\ C28_First(Top.msg.sender) = "Cold"

(***************************************************************************)
(* C29.  Selfdestruct, applied to every pair of addresses at every state   *)
(* the running code can ask for it.                                        *)
(***************************************************************************)
C29_Asking == Running /\ ~ibs.err

C29_After(addr, beneficiary) == SelfdestructStep(ibs, addr, beneficiary)

\* addr is recorded, once however often, holds nothing, and keeps nonce,
\* code and storage
C29_Destroyed(addr, beneficiary) ==
    LET s == C29_After(addr, beneficiary)
    IN /\ s.self_destructs = ibs.self_destructs \cup {addr}
       /\ SelfdestructStep(s, addr, beneficiary).self_destructs = s.self_destructs
       /\ get_balance(s, addr) = 0
       /\ get_nonce(s, addr) = get_nonce(ibs, addr)
       /\ get_code(s, addr) = get_code(ibs, addr)
       /\ s.storage[addr] = ibs.storage[addr]

C29_Credited(addr, beneficiary) ==
    get_balance(C29_After(addr, beneficiary), beneficiary)
        = get_balance(ibs, beneficiary) + get_balance(ibs, addr)

\* the statement as written: for every addr and every beneficiary
C29_Original ==
    C29_Asking =>
      \A addr \in Heirs, beneficiary \in Heirs :
        C29_Destroyed(addr, beneficiary) /\ C29_Credited(addr, beneficiary)

\* C29: Selfdestruct(addr, beneficiary) records addr in the self-destruct
\* set, idempotently, leaves addr with balance 0 and its nonce, code and
\* storage untouched, and, when the beneficiary is another address,
\* increases the beneficiary's balance by exactly the balance addr held;
\* when the beneficiary is addr itself that balance is lost
C29_Selfdestruct ==
    C29_Asking =>
      \A addr \in Heirs, beneficiary \in Heirs :
        /\ C29_Destroyed(addr, beneficiary)
        /\ beneficiary # addr => C29_Credited(addr, beneficiary)
        /\ beneficiary = addr => get_balance(C29_After(addr, beneficiary), addr) = 0

\* Bob received the value of the transaction and destroyed itself in favour
\* of Alice, who has it back
C29_Witness ==
    /\ Running /\ steps = 1 /\ Top.msg.recipient = Bob /\ Top.msg.value = 1
    /\ Bob \in ibs.self_destructs
    /\ get_balance(ibs, Bob) = 0
    /\ get_balance(ibs, Alice) = 1

\* Bob received the value of the transaction and destroyed itself in favour
\* of itself: the value is lost
C29_Burnt ==
    /\ Running /\ steps = 1 /\ Top.msg.recipient = Bob /\ Top.msg.value = 1
    /\ Bob \in ibs.self_destructs
    /\ get_balance(ibs, Bob) = 0
    /\ get_balance(ibs, Alice) = 0
    /\ get_balance(ibs, Tgt2) = 0

(***************************************************************************)
(* C30.  What the caller's interpreter is resumed with when a nested call  *)
(* or create has returned.                                                 *)
(***************************************************************************)
\* the step pops the finished nested frame and resumes the frame below
C30_Returns ==
    /\ result.tag = "running" /\ Len(frames) >= 2 /\ Top.pc = "done"
    /\ Len(frames') = Len(frames) - 1

C30_Handed == frames'[Len(frames')].ret

C30_HandsBack ==
    C30_Returns =>
        /\ C30_Handed.status_code = Top.res.status_code
        /\ C30_Handed.gas_left = Top.res.gas_left
        /\ C30_Handed.create_address = Top.res.create_address
        /\ Top.fn = "create" =>
               C30_Handed.output_data
                   = IF Top.res.status_code = "Revert"
                     THEN Top.res.output_data
                     ELSE [len |-> 0, first |-> 0, tag |-> 0]
        /\ Top.fn = "call" => C30_Handed = Top.res

\* C30: the result handed back to the interpreter for a nested create
\* carries empty output_data unless its status is Revert, in which case the
\* revert data is handed back unchanged; status_code, gas_left and
\* create_address are passed through unchanged; the result of a nested call
\* is passed through entirely unchanged
C30_CreateOutputDiscarded == [][C30_HandsBack]_vars

\* the caller was resumed with the result of a nested create that deployed
\* code: the address, and no output
C30_Witness ==
    /\ Running /\ Len(frames) = 1
    /\ Top.ret.status_code = "Success"
    /\ Top.ret.create_address # None
    /\ Top.ret.output_data.len = 0
    /\ \E a \in Top.ret.create_address : get_code(ibs, a).len > 0

\* the caller was resumed with the data of a nested create that reverted
C30_RevertData ==
    /\ Running /\ Len(frames) = 1 /\ Top.nested
    /\ Top.ret.status_code = "Revert"
    /\ Top.ret.create_address = None
    /\ Top.ret.output_data.len > 0

\* the caller was resumed with the output of a nested call
C30_CallData ==
    /\ Running /\ Len(frames) = 1 /\ Top.nested
    /\ Top.ret.status_code = "Success"
    /\ Top.ret.create_address = None
    /\ Top.ret.output_data.len > 0

(***************************************************************************)
(* C31.  The block hashes the driver hands out.                            *)
(***************************************************************************)
C31_Asked == CHOOSE n \in ctx.block_number : TRUE

C31_Panicked == result.tag = "panic"

\* the hash the backend holds for block n, written out
C31_HashOf(n) ==
    [i \in 1..32 |-> CASE i = 1 -> 1
                       [] i = 31 -> n \div 256
                       [] i = 32 -> n % 256
                       [] OTHER -> 0]

\* C31: a GetBlockHash(n) request with n at most the number of the current
\* header is answered with the hash of block n read from the backend if and
\* only if header.number - n <= 256; at distance 257 or more the driver's
\* assertion fails instead, and no hash of a block more than 256 behind is
\* ever handed out
C31_BlockHashWindow ==
    ctx.block_number # None =>
        /\ C31_Asked <= ctx.number
        /\ ctx.number - C31_Asked <= 256
             <=> ctx.hash = Some(C31_HashOf(C31_Asked)) /\ ~C31_Panicked
        /\ ctx.number - C31_Asked >= 257
             <=> ctx.hash = None /\ C31_Panicked

\* block 344 was asked for under header 600 and its hash handed out
C31_Witness ==
    /\ ctx.number = 600 /\ ctx.block_number = Some(344)
    /\ ctx.hash = Some(C31_HashOf(344))
    /\ Running

\* block 343 was asked for under header 600 and the assertion failed
C31_TooFar ==
    /\ ctx.number = 600 /\ ctx.block_number = Some(343)
    /\ C31_Panicked

(***************************************************************************)
(* C32.  The value the driver moves before the called code runs.           *)
(***************************************************************************)
\* the balances of an overlay
C32_Balances(s) == [a \in Address |-> s.accounts[a].balance]

\* the balances after value has gone from one account to another
C32_Moved(s, from, to, value) ==
    [a \in Address |->
        s.accounts[a].balance - (IF a = from THEN value ELSE 0)
                              + (IF a = to THEN value ELSE 0)]

\* the driver's steps on the message of one CALL-family instruction of the
\* running code
C32_Step(mode, target, value) ==
    LET message == NestedMessage(Top, mode, target, value, AllGas)
        r == CallBegin(ibs, message)
        plain == message.kind = "Call" /\ ~message.is_static
    IN /\ message.is_static = (Top.msg.is_static \/ mode = "StaticCall")
       /\ r.frame.msg = message
       \* only a plain Call changes a balance, by its value
       /\ C32_Balances(r.ibs) # C32_Balances(ibs) => plain /\ message.value > 0
       /\ plain /\ r.frame.res.status_code = "Success" =>
              C32_Balances(r.ibs)
                  = C32_Moved(ibs, message.sender, message.recipient,
                              message.value)
       \* a static Call that got as far as the snapshot touched the recipient
       /\ message.kind = "Call" /\ message.is_static
              /\ r.frame.snapshot # None =>
              message.recipient \in r.ibs.touched
       /\ message.kind # "Call" => r.ibs.touched = ibs.touched
       \* the sender-balance check
       /\ message.kind = "DelegateCall" =>
              r.frame.res.status_code # "InsufficientBalance"
       /\ message.kind # "DelegateCall"
              /\ ibs.accounts[message.sender].balance < message.value =>
              /\ r.frame.res.status_code = "InsufficientBalance"
              /\ r.ibs = ibs

\* C32: the driver's own steps move value only for a message of kind Call
\* with is_static false; for DelegateCall, CallCode and static calls no
\* balance is changed before the code runs (a static Call touches the
\* recipient instead), DelegateCall skips the sender-balance check, and
\* is_static reaches the frame of the called code unchanged
C32_ValueMovesForPlainCallOnly ==
    CanStep =>
        \A mode \in Modes, target \in Targets, value \in Values :
            (Top.msg.is_static /\ mode = "Call" => value = 0) =>
                C32_Step(mode, target, value)

\* Bob, called with value 1 by Alice who is left with nothing, has issued a
\* DELEGATECALL of that value: its code runs and no balance has moved
C32_Witness ==
    /\ Running /\ Len(frames) = 2
    /\ Top.msg.kind = "DelegateCall" /\ Top.msg.value = 1
    /\ Top.msg.sender = Alice /\ get_balance(ibs, Alice) = 0
    /\ get_balance(ibs, Bob) = 1
    /\ Top.pc = "run"

(***************************************************************************)
(* C33.  ecrecover and the inputs it refuses.                              *)
(***************************************************************************)
\* the order of the secp256k1 group, most significant byte first
C33_N ==
    <<255, 255, 255, 255, 255, 255, 255, 255, 255, 255, 255, 255, 255,
    255, 255, 254, 186, 174, 220, 230, 175, 72, 160, 59, 191, 210, 94,
    140, 208, 54, 65, 65>>

\* the k-th 32-byte word of an input, zeros standing for what it lacks
C33_Word(input, k) ==
    [i \in 1..32 |-> IF 32 * k + i <= Len(input) THEN input[32 * k + i]
                     ELSE 0]

\* a < b as 256-bit numbers
C33_Below(a, b) ==
    \E i \in 1..32 : a[i] < b[i] /\ \A j \in 1..(i - 1) : a[j] = b[j]

C33_Small(n) == [i \in 1..32 |-> IF i = 32 THEN n ELSE 0]

\* r = 0, s = 0, r >= n, s >= n, or v neither 27 nor 28
C33_Refused(input) ==
    LET v == C33_Word(input, 1)
        r == C33_Word(input, 2)
        s == C33_Word(input, 3)
    IN \/ r = C33_Small(0) \/ s = C33_Small(0)
       \/ ~C33_Below(r, C33_N) \/ ~C33_Below(s, C33_N)
       \/ v \notin {C33_Small(27), C33_Small(28)}

\* a finished call to ecrecover with at least 3000 gas
C33_Asked(f) ==
    /\ f.fn = "call" /\ f.pc = "done"
    /\ f.msg.code_address = 1
    /\ f.msg.gas >= 3000

\* one whose sender could pay the value
C33_Called(f) ==
    /\ C33_Asked(f)
    /\ get_balance(f.entry, f.msg.sender) >= f.msg.value

C33_Outcome(f) ==
    /\ f.res.status_code # "PrecompileFailure"
    /\ C33_Refused(f.msg.input_data) =>
          /\ f.res.status_code = "Success"
          /\ f.res.output_data.len = 0
          /\ f.res.gas_left = f.msg.gas - 3000

\* C33: a call to ecrecover with at least 3000 gas that passes the
\* sender-balance check never ends in PrecompileFailure; for every input,
\* right-padded with zeros to 128 bytes, in which r = 0, s = 0, r >= n,
\* s >= n, or v is neither 27 nor 28, it returns Success with empty output
\* and gas_left = message.gas - 3000
C33_EcrecoverNeverFails ==
    \A i \in 1..Len(frames) : C33_Called(frames[i]) => C33_Outcome(frames[i])

\* C33 as stated, for every call to ecrecover with at least 3000 gas
C33_Original ==
    \A i \in 1..Len(frames) : C33_Asked(frames[i]) => C33_Outcome(frames[i])

\* a call with r = n, s = 1, v = 27 and exactly 3000 gas has returned Success
\* with nothing and no gas left
C33_Witness ==
    /\ Len(frames) = 1 /\ C33_Called(Top)
    /\ Len(Top.msg.input_data) = 128
    /\ C33_Word(Top.msg.input_data, 2) = C33_N
    /\ C33_Word(Top.msg.input_data, 3) = C33_Small(1)
    /\ C33_Word(Top.msg.input_data, 1) = C33_Small(27)
    /\ Top.msg.gas = 3000
    /\ Top.res = Output("Success", 0, Bytes_new, None)

\* the all-zero input of 128 bytes has returned Success with nothing
C33_AllZero ==
    /\ Len(frames) = 1 /\ C33_Called(Top)
    /\ Top.msg.input_data = [i \in 1..128 |-> 0]
    /\ Top.res.status_code = "Success" /\ Top.res.output_data.len = 0

\* a signature in range has been recovered to an address
C33_Recovered ==
    /\ Len(frames) = 1 /\ C33_Called(Top)
    /\ ~C33_Refused(Top.msg.input_data)
    /\ Top.res.status_code = "Success" /\ Top.res.output_data.len = 32

(***************************************************************************)
(* C34.  The inputs the pairing check and Blake2F refuse.                  *)
(***************************************************************************)
\* what the call is charged: per stride and base for the pairing check, the
\* rounds (the first four bytes) for Blake2F
C34_Cost(f) ==
    IF f.msg.code_address = 8
    THEN IF revision >= Istanbul
         THEN 34000 * (f.msg.input_data.len \div 192) + 45000
         ELSE 80000 * (f.msg.input_data.len \div 192) + 100000
    ELSE IF f.msg.input_data.len < 4 THEN 0
         ELSE f.msg.input_data.first * 16777216

\* a finished call to the pairing check (from Byzantium) or to Blake2F (from
\* Istanbul) whose gas covers the cost
C34_Asked(f, address) ==
    /\ f.fn = "call" /\ f.pc = "done"
    /\ f.msg.code_address = address
    /\ revision >= (IF address = 8 THEN Byzantium ELSE Istanbul)
    /\ f.msg.gas >= C34_Cost(f)

\* one whose sender could pay the value
C34_Called(f, address) ==
    /\ C34_Asked(f, address)
    /\ get_balance(f.entry, f.msg.sender) >= f.msg.value

C34_Refused(f) ==
    IF f.msg.code_address = 8 THEN f.msg.input_data.len % 192 # 0
    ELSE \/ f.msg.input_data.len # 213
         \/ f.msg.input_data.last \notin {0, 1}

C34_Failed(f) ==
    /\ f.res = Output("PrecompileFailure", 0, Bytes_new, None)
    /\ ibs.accounts = f.entry.accounts
    /\ ibs.touched = f.entry.touched
    /\ Len(ibs.journal) = Len(f.entry.journal)

C34_Outcome(f, address) ==
    /\ C34_Refused(f) => C34_Failed(f)
    /\ address = 8 /\ f.msg.input_data.len = 0 =>
          /\ f.res.status_code = "Success"
          /\ f.res.output_data = [len |-> 32, first |-> 0, tag |-> 7]
          /\ f.res.gas_left = f.msg.gas - C34_Cost(f)

\* C34: a call with sufficient gas that passes the sender-balance check, to
\* the pairing check with an input length that is not a multiple of 192, or
\* to Blake2F with an input that is not exactly 213 bytes or whose flag byte
\* is neither 0 nor 1, returns PrecompileFailure with empty output and
\* gas_left 0, and the overlay is back where it was at the call, the value
\* with the sender; an empty pairing input succeeds with the 32-byte value 1
C34_MalformedInputFails ==
    Len(frames) = 1 =>
        \A address \in {8, 9} :
            C34_Called(Top, address) => C34_Outcome(Top, address)

\* C34 as stated, for every call with sufficient gas
C34_Original ==
    Len(frames) = 1 =>
        \A address \in {8, 9} :
            C34_Asked(Top, address) => C34_Outcome(Top, address)

\* a pairing call of 193 bytes that carried value 1 has failed and Alice has
\* her balance back
C34_Witness ==
    /\ Len(frames) = 1 /\ C34_Called(Top, 8)
    /\ Top.msg.input_data.len = 193 /\ Top.msg.value = 1
    /\ Top.res.status_code = "PrecompileFailure"
    /\ get_balance(ibs, Alice) = 1 /\ get_balance(ibs, 8) = 0

\* a Blake2F call of 213 bytes with flag byte 2 has failed
C34_BadFlag ==
    /\ Len(frames) = 1 /\ C34_Called(Top, 9)
    /\ Top.msg.input_data.len = 213 /\ Top.msg.input_data.last = 2
    /\ Top.res.status_code = "PrecompileFailure"

\* a Blake2F call of 213 bytes with flag byte 1 has succeeded and kept the
\* value
C34_Compressed ==
    /\ Len(frames) = 1 /\ C34_Called(Top, 9)
    /\ Top.msg.value = 1
    /\ Top.res.status_code = "Success" /\ Top.res.output_data.len = 64
    /\ get_balance(ibs, 9) = 1

\* the empty pairing input has succeeded
C34_EmptyPairing ==
    /\ Len(frames) = 1 /\ C34_Called(Top, 8)
    /\ Top.msg.input_data.len = 0
    /\ Top.res.status_code = "Success"

(***************************************************************************)
(* C35.  The price of expmod.                                              *)
(***************************************************************************)
\* the k-th declared length of an input, zeros standing for what it lacks
C35_Length(input, k) ==
    [i \in 1..32 |-> IF 32 * k + 33 - i <= Len(input)
                     THEN input[32 * k + 33 - i] ELSE 0]

C35_Fits64(x) == \A i \in 9..32 : x[i] = 0

\* the bytes of an input after the three lengths
C35_Body(input) ==
    IF Len(input) > 96 THEN SubSeq(input, 97, Len(input)) ELSE <<>>

\* 8 * (exp_len - 32) when exp_len > 32, plus bitlen - 1 when the bit length
\* of the first 32 exponent bytes exceeds 1, and at least 1
C35_AdjustedOf(exp_len, bitlen) ==
    LET eight == IF u256_le(exp_len, u256(32)) THEN u256(0)
                 ELSE u256_mul(u256(8), u256_sub(exp_len, u256(32)))
    IN IF bitlen > 1 THEN u256_add(eight, u256(bitlen - 1))
       ELSE IF u256_le(exp_len, u256(32)) THEN u256(1)
       ELSE eight

C35_Adjusted(input) ==
    C35_AdjustedOf(C35_Length(input, 1),
                   bit_len(exp_head(C35_Body(input), C35_Length(input, 0),
                                    C35_Length(input, 1))))

C35_Square(x) == u256_mul(x, x)

C35_Complexity(x) ==
    IF revision >= Berlin
    THEN C35_Square(u256_div(u256_add(x, u256(7)), 8))
    ELSE IF u256_le(x, u256(64)) THEN u256_mul(x, x)
    ELSE IF u256_le(x, u256(1024))
    THEN u256_sub(u256_add(u256_div(u256_mul(x, x), 4),
                           u256_mul(u256(96), x)), u256(3072))
    ELSE u256_sub(u256_add(u256_div(u256_mul(x, x), 16),
                           u256_mul(u256(480), x)), u256(199680))

C35_Floor == u256(IF revision >= Berlin THEN 200 ELSE 0)

C35_AtLeastFloor(gas) ==
    IF ~C35_Fits64(gas) THEN None
    ELSE IF u256_le(gas, C35_Floor) THEN Some(C35_Floor)
    ELSE Some(gas)

C35_PriceOf(base_len, mod_len, adjusted) ==
    IF u256_is_zero(base_len) /\ u256_is_zero(mod_len) THEN Some(C35_Floor)
    ELSE C35_AtLeastFloor(
             u256_div(u256_mul(C35_Complexity(IF u256_le(base_len, mod_len)
                                              THEN mod_len ELSE base_len),
                               adjusted),
                      IF revision >= Berlin THEN 3 ELSE 20))

\* max(floor, complexity(max(base_len, mod_len)) * adjusted_exp_len /
\* divisor), None when it does not fit 64 bits
C35_Price(input) ==
    C35_PriceOf(C35_Length(input, 0), C35_Length(input, 2),
                C35_Adjusted(input))

C35_Declared(input) ==
    /\ C35_Fits64(C35_Length(input, 0))
    /\ C35_Fits64(C35_Length(input, 1))
    /\ C35_Fits64(C35_Length(input, 2))

\* C35: for every modexp input whose three declared lengths each fit in 64
\* bits the price is max(floor, complexity(max(base_len, mod_len)) *
\* adjusted_exp_len / divisor), computed without wraparound or panic; it is
\* the floor when base_len = mod_len = 0, and the input cannot be priced when
\* the result does not fit 64 bits
C35_PricedByFormula ==
    result.tag \in {"priced", "panic"} /\ C35_Declared(result.res.input) =>
        /\ result.tag = "priced"
        /\ result.res.gas = C35_Price(result.res.input)

\* the same for the inputs whose exponent length is at most 2^61 + 31, for
\* which 8 * (exp_len - 32) is below 2^64
C35_PricedBelowTheWidth ==
    /\ result.tag \in {"priced", "panic"}
    /\ C35_Declared(result.res.input)
    /\ u256_le(C35_Length(result.res.input, 1),
               [i \in 1..32 |-> CASE i = 1 -> 31 [] i = 8 -> 32 [] OTHER -> 0])
    => /\ result.tag = "priced"
       /\ result.res.gas = C35_Price(result.res.input)

\* base_len 1, exp_len 2^61 + 32, mod_len 1 have been priced at 0 under
\* Byzantium, where the formula gives 2^64 / 20
C35_Wrapped ==
    /\ revision = Byzantium /\ result.tag = "priced"
    /\ Len(result.res.input) = 96
    /\ C35_Length(result.res.input, 0) = u256(1)
    /\ C35_Length(result.res.input, 2) = u256(1)
    /\ C35_Length(result.res.input, 1)
          = [i \in 1..32 |-> CASE i = 1 -> 32 [] i = 8 -> 32 [] OTHER -> 0]
    /\ result.res.gas = Some(u256(0))
    /\ C35_Price(result.res.input) # Some(u256(0))

\* the same input has made a build with overflow checks panic
C35_Panicked ==
    /\ result.tag = "panic"
    /\ C35_Length(result.res.input, 1)
          = [i \in 1..32 |-> CASE i = 1 -> 32 [] i = 8 -> 32 [] OTHER -> 0]

\* base_len 1, exp_len 33, mod_len 1025 and an exponent that starts with ff
\* have been priced under Berlin: ceil(1025 / 8)^2 * (8 + 255) / 3 = 1458861
C35_Priced ==
    /\ revision = Berlin /\ result.tag = "priced"
    /\ C35_Length(result.res.input, 0) = u256(1)
    /\ C35_Length(result.res.input, 1) = u256(33)
    /\ C35_Length(result.res.input, 2) = u256(1025)
    /\ C35_Body(result.res.input) = <<1, 255>>
    /\ result.res.gas = Some(u256(1458861))

(***************************************************************************)
(* C36.  The driver creates and destroys no value.                         *)
(***************************************************************************)
\* the balances of the addresses up to n, summed
RECURSIVE C36_Sum(_, _)
C36_Sum(s, n) ==
    IF n < ZeroAddr THEN 0
    ELSE (IF n \in Address THEN s.accounts[n].balance ELSE 0)
             + C36_Sum(s, n - 1)

\* the sum of all account balances of an overlay
C36_Total(s) == C36_Sum(s, Tgt2)

\* C36: across any call or create, whatever its outcome and whatever calls,
\* creates, reverts and self-destructs to another account are nested in it,
\* the sum of all balances in the overlay is the sum at its entry
C36_BalanceSumKept ==
    /\ \A i \in 1..Len(frames) :
           C36_Total(ibs) = C36_Total(frames[i].entry)
    /\ result.tag = "ok" => C36_Total(ibs) = C36_Total(NewIntraBlockState)

\* Bob, called with value 1, has destructed itself in favour of Alice, who
\* holds the 1 again
C36_Witness ==
    /\ Running /\ Len(frames) = 1
    /\ Top.msg.recipient = Bob /\ Top.msg.value = 1
    /\ Bob \in ibs.self_destructs
    /\ get_balance(ibs, Bob) = 0 /\ get_balance(ibs, Alice) = 1
    /\ get_balance(Top.snap, Alice) = 1

\* a create that was given value 1 has failed and the value is back with its
\* sender
C36_RolledBack ==
    /\ Len(frames) = 1 /\ Top.fn = "create" /\ Top.pc = "done"
    /\ Top.msg.value = 1
    /\ Top.res.status_code # "Success"
    /\ Top.snapshot # None
    /\ get_balance(ibs, Alice) = 1

(***************************************************************************)
(* C37.  Snapshots are taken and reverted to in nested order.              *)
(***************************************************************************)
C37_Token(f) == CHOOSE snapshot \in f.snapshot : TRUE

\* the tokens of the open frames grow with the depth and none is beyond the
\* journal
C37_Nested ==
    \A i \in 1..Len(frames) :
        frames[i].snapshot # None =>
            /\ C37_Token(frames[i]) <= Len(ibs.journal)
            /\ \A j \in 1..(i - 1) :
                  frames[j].snapshot # None =>
                      C37_Token(frames[j]) <= C37_Token(frames[i])

\* a step that shortens the journal is the one revert of the innermost
\* frame, whose code was running, to that frame's own token; the frames
\* around it are left as they were
C37_Revert ==
    Len(ibs'.journal) < Len(ibs.journal) =>
        /\ frames # <<>> /\ Top.pc = "run" /\ Top.snapshot # None
        /\ Len(frames') = Len(frames)
        /\ frames'[Len(frames)].pc = "done"
        /\ frames'[Len(frames)].res.status_code # "Success"
        /\ Len(ibs'.journal) = C37_Token(Top)
        /\ \A i \in 1..(Len(frames) - 1) : frames'[i] = frames[i]

\* a frame that has finished leaves the journal alone
C37_Once ==
    frames # <<>> /\ Top.pc = "done" => ibs'.journal = ibs.journal

\* C37: snapshots are used in properly nested order: every revert issued by
\* call or create uses the token taken by that same frame, at most once, and
\* only when every frame nested inside it has returned; a token is never
\* beyond the journal
C37_SnapshotsNested == [][C37_Revert /\ C37_Once /\ C37_Nested']_vars

\* a nested create has failed and the journal is back at its token, above
\* the token of the call around it
C37_Witness ==
    /\ Len(frames) = 2 /\ Top.fn = "create" /\ Top.pc = "done"
    /\ Top.res.status_code # "Success"
    /\ Top.snapshot # None /\ frames[1].snapshot # None
    /\ Len(ibs.journal) = C37_Token(Top)
    /\ C37_Token(frames[1]) < C37_Token(Top)

(***************************************************************************)
(* C38.  The root message of a transaction.                                *)
(***************************************************************************)
\* the root frame that execute has opened for txn
C38_Opened(txn, static, plain) ==
    LET f == frames'[1]
        from == IF txn.from = None THEN ZeroAddr
                ELSE CHOOSE address \in txn.from : TRUE
        value == IF txn.value = None THEN 0
                 ELSE CHOOSE v \in txn.value : TRUE
    IN /\ Len(frames') = 1
       /\ f.msg.depth = 0
       /\ f.msg.sender = from
       /\ f.msg.value = value
       /\ IF txn.to # None
          THEN LET to == CHOOSE address \in txn.to : TRUE
               IN /\ f.fn = "call" /\ f.msg.kind = "Call"
                  /\ f.msg.recipient = to /\ f.msg.code_address = to
                  /\ f.msg.is_static = static
                  /\ static =>
                        /\ ibs'.accounts = ibs.accounts
                        /\ ibs'.touched \subseteq ibs.touched \cup {to}
                        /\ f.snapshot # None => to \in ibs'.touched
                  /\ plain =>
                        C32_Balances(ibs') = C32_Moved(ibs, from, to, value)
          ELSE /\ f.fn = "create"
               /\ ~f.msg.is_static
               /\ f.target = Some(create_address(from, get_nonce(ibs, from)))

C38_Step(txn, gas, covered) ==
    LET static == txn.from = None \/ txn.from = Some(ZeroAddr)
    IN Execute(txn, gas) =>
          C38_Opened(txn, static, ~static /\ covered)

\* the sender's balance covers the value of the transaction
C38_Covered(txn) ==
    get_balance(ibs, or_default(txn.from, ZeroAddr))
        >= or_default(txn.value, 0)

\* C38: execute runs the root message of a transaction with a recipient as
\* a static Call exactly when the sender is absent or the zero address; the
\* driver then moves no value and at most touches the recipient; otherwise
\* the root call is non-static and, when the sender's balance covers it,
\* moves the value of the transaction; a transaction without recipient is a
\* non-static create at depth 0 to the address made from sender and nonce
C38_RootMessage ==
    [][\A txn \in Txns, gas \in TxGas :
          C38_Step(txn, gas, C38_Covered(txn))]_vars

\* C38 as stated: every non-static root call moves the value
C38_Original ==
    [][\A txn \in Txns, gas \in TxGas : C38_Step(txn, gas, TRUE)]_vars

\* a transaction without sender has called Bob with value 0: the root call
\* is static, its code runs, and Bob is touched
C38_Witness ==
    /\ Running /\ Len(frames) = 1 /\ Top.fn = "call"
    /\ Top.msg.is_static /\ Top.msg.sender = ZeroAddr /\ Top.msg.depth = 0
    /\ Top.msg.recipient = Bob /\ Bob \in ibs.touched
    /\ C32_Balances(ibs) = C32_Balances(Top.entry)

\* Alice has sent 1 to Bob: the root call is not static and the value moved
C38_Paid ==
    /\ Running /\ Len(frames) = 1 /\ Top.fn = "call" /\ ~Top.msg.is_static
    /\ Top.msg.sender = Alice /\ Top.msg.value = 1
    /\ C32_Balances(ibs) = C32_Moved(Top.entry, Alice, Bob, 1)

\* Alice, who holds 1, has sent 2 to Bob: the root call is over and nothing
\* has moved
C38_Short ==
    /\ Len(frames) = 1 /\ Top.fn = "call" /\ Top.pc = "done"
    /\ Top.msg.sender = Alice /\ Top.msg.value = 2
    /\ Top.res.status_code = "InsufficientBalance"
    /\ C32_Balances(ibs) = C32_Balances(Top.entry)

\* a transaction without recipient has opened a create frame
C38_Created ==
    /\ Running /\ Len(frames) = 1 /\ Top.fn = "create" /\ Top.msg.depth = 0

(***************************************************************************)
(* C39.  A LocalOnly StateMuxer on the file a tee session left.            *)
(***************************************************************************)
C39_Got == CHOOSE g \in db.got : TRUE

\* the reads of the tee session that asked what the local read asks and
\* were answered
C39_Asked ==
    {db.session[i] :
        i \in {j \in 1..Len(db.session) :
                  /\ db.session[j].op = C39_Got.op
                  /\ db.session[j].args = C39_Got.args
                  /\ db.session[j].res.tag # "panic"}}

\* the header as SqliteBackend hands it out: the beneficiary as its bytes
C39_Header(res) ==
    IF res.tag = "Ok" /\ res.val # None
    THEN LET header == CHOOSE x \in res.val : TRUE
         IN Ok(Some([header EXCEPT
                        !.beneficiary = address_bytes(header.beneficiary)]))
    ELSE res

\* the local read returned what the tee read returned
C39_Same(e) ==
    IF e.op = "read_block_header" THEN C39_Got.res = C39_Header(e.res)
    ELSE C39_Got.res = e.res

\* the header the file gives back for the header the remote state returned:
\* the number asked for, and a base fee of zero where there was none
C39_Stored(e) ==
    LET header == CHOOSE x \in e.res.val : TRUE
    IN C39_Header(Ok(Some([header EXCEPT
                             !.number = e.args[1],
                             !.base_fee_per_gas =
                                 Some(or_default(header.base_fee_per_gas,
                                                 U256_from(0)))])))

\* what the tee read wrote nothing for
C39_Absent(e) ==
    e.op \in {"read_account", "read_block_header"} /\ e.res = Ok(None)

C39_Replayed(e) ==
    IF C39_Absent(e) THEN C39_Got.res.tag = "Err"
    ELSE IF e.op = "read_block_header" THEN C39_Got.res = C39_Stored(e)
    ELSE C39_Same(e)

\* a LocalOnly muxer sends nothing to the remote node and writes nothing
C39_Local ==
    db.mux.db =>
        /\ db'.sent = db.sent
        /\ db'.mux = db.mux
        /\ db'.mux.web3 = None
        /\ db'.dumped = db.dumped

\* C39: a LocalOnly StateMuxer opened on the file a tee session filled
\* returns, for every read_account that found an account, every read_code
\* and every read_storage of the session, repeated or not, what the tee
\* read returned; for a read_block_header that found a block it returns
\* the header with the number asked for and a base fee of zero where the
\* block had none; for an address or block the remote reported absent it
\* fails; and in LocalOnly mode nothing is sent to the remote node
C39_TeeReplays ==
    [][/\ C39_Local
       /\ db'.mux.db /\ db'.got # None =>
              (\A e \in C39_Asked : C39_Replayed(e))']_vars

\* C39 as stated: every read of the session is answered as it was
C39_Original ==
    [][/\ C39_Local
       /\ db'.mux.db /\ db'.got # None =>
              (\A e \in C39_Asked : C39_Same(e))']_vars

\* Bob was read twice in the tee session and the local muxer returns the
\* account the remote node returned
C39_Witness ==
    /\ db.mux.db /\ db.got # None
    /\ C39_Got.op = "read_account" /\ C39_Got.args = <<Bob>>
    /\ Len(db.session) = 2
    /\ \A i \in 1..2 : db.session[i].op = "read_account"
    /\ db.session[1] = db.session[2]
    /\ Len(db.balance) = 2
    /\ C39_Got.res = db.session[1].res
    /\ C39_Got.res.tag = "Ok" /\ C39_Got.res.val # None
    /\ db.sent = 6

\* the remote node reported nothing at Tgt1; the local read of it fails
C39_Missing ==
    /\ db.mux.db /\ db.got # None
    /\ C39_Got.op = "read_account" /\ C39_Got.args = <<Tgt1>>
    /\ \E e \in C39_Asked : e.res = Ok(None)
    /\ C39_Got.res = Err("failed to get balance")

\* the block before the pinned one has no base fee and was returned under
\* the pinned number; the file gives it back with a base fee of zero under
\* its own number
C39_Renumbered ==
    /\ db.mux.db /\ db.got # None
    /\ C39_Got.op = "read_block_header" /\ C39_Got.args = <<StateBlock - 1>>
    /\ \E e \in C39_Asked :
          /\ (CHOOSE x \in e.res.val : TRUE).number = StateBlock
          /\ (CHOOSE x \in e.res.val : TRUE).base_fee_per_gas = None
    /\ (CHOOSE x \in C39_Got.res.val : TRUE).number = StateBlock - 1
    /\ (CHOOSE x \in C39_Got.res.val : TRUE).base_fee_per_gas
           = Some(U256_from(0))

\* the code and a slot of Bob are read locally as the tee session read them
C39_CodeAndSlot ==
    /\ db.mux.db /\ db.got # None
    /\ C39_Got.op \in {"read_code", "read_storage"}
    /\ C39_Got.res.tag = "Ok"
    /\ \E e \in C39_Asked : e.res = C39_Got.res /\ e.res.val # <<>>

(***************************************************************************)
(* C40.  Clearing a slot and writing its original value back.              *)
(***************************************************************************)
\* the slot of the running code holds its original value, which is not zero
C40_Untouched(key) ==
    /\ get_original_storage(ibs, Top.msg.recipient, key) # 0
    /\ get_current_storage(ibs, Top.msg.recipient, key)
           = get_original_storage(ibs, Top.msg.recipient, key)

\* the two writes: 0, then the original value
C40_Cleared(key) == SetStorageStep(ibs, Top.msg.recipient, key, 0, revision)

C40_Restored(key) ==
    SetStorageStep(C40_Cleared(key).ibs, Top.msg.recipient, key,
                   get_original_storage(ibs, Top.msg.recipient, key), revision)

\* C40: under the EIP-1283 rules, for a slot whose original value X is not
\* zero and is its current value, writing 0 and then X leaves the slot at X
\* and the refund counter higher than before by sstore_reset_gas -
\* sload_cost: the first write credits the clear refund, the second removes
\* it in full, and in between the counter is not below where it started
C40_ClearAndRestore ==
    CanStep /\ ~Top.msg.is_static /\ eip1283(revision) =>
        \A key \in Keys :
            C40_Untouched(key) =>
                LET before == ibs.refund
                    between == C40_Cleared(key).ibs
                    after == C40_Restored(key).ibs
                IN /\ get_current_storage(between, Top.msg.recipient, key) = 0
                   /\ between.refund = before + sstore_clears_refund(revision)
                   /\ between.refund >= before
                   /\ get_current_storage(after, Top.msg.recipient, key)
                          = get_current_storage(ibs, Top.msg.recipient, key)
                   /\ get_original_storage(after, Top.msg.recipient, key)
                          = get_original_storage(ibs, Top.msg.recipient, key)
                   /\ after.refund - between.refund
                          = (sstore_reset_gas(revision) - sload_cost(revision))
                              - sstore_clears_refund(revision)
                   /\ after.refund
                          = before + sstore_reset_gas(revision)
                                   - sload_cost(revision)
                   /\ after.refund > before

\* Bob's code has written 0 and then 1 again to a slot that held 1 when the
\* transaction began, under the London rules: the slot holds 1 and the
\* counter stands at sstore_reset_gas - sload_cost
C40_Witness ==
    /\ Running /\ Len(frames) = 1 /\ Top.fn = "call" /\ steps = 2
    /\ revision = London
    /\ \E key \in Keys :
          /\ C40_Untouched(key)
          /\ Top.entry.refund = 0
          /\ ibs.refund = sstore_reset_gas(London) - sload_cost(London)
          /\ ibs.refund = 2800

\* the slot is cleared and the clear refund stands in the counter
C40_Between ==
    /\ Running /\ Len(frames) = 1 /\ Top.fn = "call" /\ steps = 1
    /\ eip1283(revision)
    /\ \E key \in Keys :
          /\ get_original_storage(ibs, Top.msg.recipient, key) # 0
          /\ get_current_storage(ibs, Top.msg.recipient, key) = 0
          /\ ibs.refund = sstore_clears_refund(revision)

=============================================================================
